---- MODULE Spec2Model ----
(***************************************************************************)
(* A model of the bam-rag ingestion pipeline:                              *)
(*   - the event-driven coordinator runScrapeWithIngest                    *)
(*     (cmd/bam-rag/cmd/root.go), one producer and one consumer goroutine  *)
(*     joined by the channel scrapeEvents;                                 *)
(*   - the crawler Scraper.Scrape and the checkpoint writer                *)
(*     Scraper.ScrapeToS3 (scraper package);                               *)
(*   - the ingestion engine Engine.Ingest and the direct Pipeline.Run.     *)
(* Each part has its own specification over the shared variables.          *)
(***************************************************************************)
EXTENDS Integers, Sequences, FiniteSets, TLC

\* ------------------------------------------------------------------ bounds

\* The longest URL list handed to runScrapeWithIngest.
MaxTargets == 3

\* The largest page count one crawl run reports.
MaxPages == 2

\* The largest colly.MaxDepth configured (0 is no limit).
MaxDepthBound == 2

\* Capacity of scrapeEvents: make(chan events.ScrapeCompleteEvent).
ChanCap == 0

\* ------------------------------------------------------------------ state

VARIABLES
    \* runScrapeWithIngest
    urls,              \* the URL list: urls[i] is target i's start URL
    ppc,               \* producer (main goroutine) position
    idx,               \* index of the target the producer's range loop is at
    pending,           \* the event the producer is about to send
    totalPages,        \* producer's local totalPages
    chan,              \* buffer of scrapeEvents
    closed,            \* close(scrapeEvents) has run
    doneClosed,        \* close(done) has run
    cpc,               \* consumer (ingestion worker) position
    event,             \* the worker's loop variable
    totalDocsIndexed,  \* shared total, written by the worker
    reported,          \* the totals printed by the final Printf
    attempted,         \* history: targets whose ScrapeToS3 call has returned
    scraped,           \* history: prefixes of the runs ScrapeToS3 returned for
    received,          \* history: prefixes of the events the worker received
    ingestLog,         \* history: <<"start"|"end", prefix>> of the Ingest calls
    ingestSum,         \* history: sum of DocsIndexed over the runs with a result
    \* Scraper.Scrape and Scraper.ScrapeToS3
    cfg,               \* scraper.Config: maxDepth, followLinks
    caller,            \* who calls Scrape: "ScrapeToS3", or "Scrape" directly
    startURL,          \* the start URL of the crawl run
    ctxDone,           \* ctx.Err() != nil
    tpc,               \* position of the caller of Scrape
    spc,               \* position of Scrape
    stack,             \* the collector's pending visits, innermost first
    visited,           \* URLs the collector has marked visited
    docs,              \* Scrape's local docs
    cancelled,         \* Scrape's local cancelled
    startErr,          \* c.Visit(startURL) returned an error
    scrapeRet,         \* what Scrape returned
    di,                \* ScrapeToS3's index into docs
    pageURLs,          \* ScrapeToS3's local pageURLs
    store,             \* the object store: page files and manifests
    s3Ret,             \* what ScrapeToS3 returned
    requests,          \* history: the requests issued, with their outcome
    atCancel,          \* history: requests and docs when cancelled was set
    storeLog,          \* history: the store writes attempted, in order
    \* Engine.Ingest and Pipeline.Run
    mode,              \* which flow runs: "ingest" or "run"
    llmOn,             \* llmClient != nil
    embedOn,           \* embedClient != nil
    prefixArg,         \* Ingest's prefix argument (Run: the scraped start URL)
    ipc,               \* position of Ingest or Run
    meta,              \* Ingest's meta, as a set of at most one manifest
    files,             \* Ingest's files (Run: scrapedDocs)
    fi,                \* index of the file or document the loop is at
    result,            \* the Result being filled in
    index,             \* the search index: the documents it holds
    ingestRet,         \* what Ingest or Run returned
    faults,            \* how many calls have failed so far
    stopped,           \* the loop was left on a cancelled context
    docLog,            \* history: the documents the current run went through
    runLog,            \* history: the runs that returned a result
    \* the commands, up to the start of the run
    conf,              \* the configuration and the flags of the command
    bpc,               \* position of the command
    flow,              \* the flow the command has taken
    bucketExists,      \* the object store has the bucket
    bucketMade,        \* history: the command has created the bucket
    bootErr,           \* the error the command returned, "" while none
    \* the model calls of a run, one by one
    dpc,               \* position of the goroutine that enriches documents
    inflight,          \* the model calls sent and not yet answered
    batches,           \* how many more batches the run will be given
    \* the response callbacks of a crawl, step by step
    slots,             \* the fetches under way, each with its callback's position
    mu,                \* the slot holding Scrape's mutex, 0 when it is free
    \* the functions checked on their own
    call               \* the arguments drawn for the function and what it returned

coordVars == <<urls, ppc, idx, pending, totalPages, chan, closed, doneClosed,
               cpc, event, totalDocsIndexed, reported, attempted, scraped,
               received, ingestLog, ingestSum>>

scrapeVars == <<cfg, caller, startURL, tpc, spc, stack, visited, docs,
                cancelled, startErr, scrapeRet, di, pageURLs, s3Ret, requests,
                atCancel, storeLog>>

\* What the parts share: the context and the bucket.
envVars == <<ctxDone, store>>

ingestVars == <<mode, llmOn, embedOn, prefixArg, ipc, meta, files, fi, result,
                index, ingestRet, faults, stopped, docLog, runLog>>

bootVars == <<conf, bpc, flow, bucketExists, bucketMade, bootErr>>

enrichVars == <<dpc, inflight, batches>>

callbackVars == <<slots, mu>>

vars == <<coordVars, scrapeVars, envVars, ingestVars, bootVars, enrichVars,
          callbackVars, call>>

\* ------------------------------------------------------- parts not running

NoEvent == [prefix |-> 0, pageCount |-> 0]

\* Nothing printed yet by the final Printf.
NoReport == [printed |-> FALSE, pages |-> 0, docs |-> 0]

\* Scrape has not returned.
NoScrapeRet == [returned |-> FALSE, docs |-> <<>>, err |-> "nil"]

\* ScrapeToS3 has not returned.
NoS3Ret == [returned |-> FALSE, err |-> "nil", prefix |-> <<>>,
            pageCount |-> 0, sourceURL |-> ""]

\* An empty bucket.
EmptyStore == [pages |-> {}, manifests |-> {}]

\* The coordinator's variables while another part is checked.
CoordIdle ==
    /\ urls = <<>>
    /\ ppc = "loop"
    /\ idx = 1
    /\ pending = NoEvent
    /\ totalPages = 0
    /\ chan = <<>>
    /\ closed = FALSE
    /\ doneClosed = FALSE
    /\ cpc = "recv"
    /\ event = NoEvent
    /\ totalDocsIndexed = 0
    /\ reported = NoReport
    /\ attempted = {}
    /\ scraped = <<>>
    /\ received = <<>>
    /\ ingestLog = <<>>
    /\ ingestSum = 0

\* The scraper's variables while another part is checked.
ScrapeIdle ==
    /\ cfg = [maxDepth |-> 0, followLinks |-> FALSE]
    /\ caller = "ScrapeToS3"
    /\ startURL = ""
    /\ tpc = "start"
    /\ spc = "idle"
    /\ stack = <<>>
    /\ visited = {}
    /\ docs = <<>>
    /\ cancelled = FALSE
    /\ startErr = FALSE
    /\ scrapeRet = NoScrapeRet
    /\ di = 1
    /\ pageURLs = <<>>
    /\ s3Ret = NoS3Ret
    /\ requests = <<>>
    /\ atCancel = <<>>
    /\ storeLog = <<>>

\* A live context and an empty bucket.
EnvIdle ==
    /\ ctxDone = FALSE
    /\ store = EmptyStore

\* Ingest or Run has not returned.
NoIngestRet == [returned |-> FALSE, err |-> FALSE]

\* A Result with nothing counted.
EmptyResult == [docsIndexed |-> 0, errors |-> <<>>]

\* The ingestion variables while another part is checked.
IngestIdle ==
    /\ mode = "ingest"
    /\ llmOn = FALSE
    /\ embedOn = FALSE
    /\ prefixArg = <<>>
    /\ ipc = "idle"
    /\ meta = {}
    /\ files = <<>>
    /\ fi = 1
    /\ result = EmptyResult
    /\ index = <<>>
    /\ ingestRet = NoIngestRet
    /\ faults = 0
    /\ stopped = FALSE
    /\ docLog = <<>>
    /\ runLog = <<>>

\* The command's variables while another part is checked: the default
\* configuration, the clients created, the bucket there.
BootIdle ==
    /\ conf = [command |-> "scrape", noIngest |-> FALSE,
               endpoint |-> "localhost:9002", bucket |-> "bam-rag",
               embeddings |-> [enabled |-> FALSE, socketPath |-> "",
                               model |-> "ai/embeddinggemma"],
               llm |-> [enabled |-> FALSE, socketPath |-> "",
                        model |-> "ai/gemma3"]]
    /\ bpc = "work"
    /\ flow = "event"
    /\ bucketExists = TRUE
    /\ bucketMade = FALSE
    /\ bootErr = ""

\* The goroutine that enriches is between two documents.
BetweenDocuments == [at |-> "loop", waiting |-> FALSE]

\* The model-call variables while another part is checked.
EnrichIdle ==
    /\ dpc = BetweenDocuments
    /\ inflight = {}
    /\ batches = 0

\* No function is being checked on its own.
NoCall == [fn |-> "none"]

\* Parallelism of the collector's limit rule: the fetches it lets run at once.
Parallelism == 2

\* A slot with no fetch under way.
FreeSlot == [pc |-> "free", url |-> "", depth |-> 0, local |-> <<>>]

\* The callback variables while another part is checked.
CallbacksIdle ==
    /\ slots = [s \in 1..Parallelism |-> FreeSlot]
    /\ mu = 0

\* -------------------------------------------------------------- the crawler

\* The site crawled: its pages, one of them on another host.
HomeURL == "https://a.test/"

\* A second site, a chain: every page links to the next one and to nothing
\* else, the last page to nothing.
ChainPages == <<"https://c.test/", "https://c.test/level1",
                "https://c.test/level2", "https://c.test/level3">>

ChainURL == ChainPages[1]

\* A start URL url.Parse rejects (a bad percent escape).
BadURL == "https://a.test/%zz"

PageURLs == {"https://a.test/", "https://a.test/p1", "https://a.test/p2",
             "https://a.test/p3", "https://b.test/x"}

\* The href attributes of the a[href] elements of each page, in document
\* order: relative and absolute, same host and foreign.
Links(u) ==
    CASE u = "https://a.test/"   -> <<"/p1", "https://b.test/x", "p2">>
      [] u = "https://a.test/p1" -> <<"/p2", "/">>
      [] u = "https://a.test/p2" -> <<"p3">>
      [] u = "https://a.test/p3" -> <<>>
      [] u = "https://b.test/x"  -> <<"https://a.test/p3">>
      [] u = "https://c.test/"       -> <<"/level1">>
      [] u = "https://c.test/level1" -> <<"/level2">>
      [] u = "https://c.test/level2" -> <<"/level3">>
      [] u = "https://c.test/level3" -> <<>>
      [] OTHER -> <<>>

\* e.Request.AbsoluteURL(link): the href resolved against the page's URL.
AbsoluteURL(base, href) ==
    CASE href = "/"   -> "https://a.test/"
      [] href = "/p1" -> "https://a.test/p1"
      [] href = "/p2" -> "https://a.test/p2"
      [] href = "p2"  -> "https://a.test/p2"
      [] href = "p3"  -> "https://a.test/p3"
      [] href = "/level1" -> "https://c.test/level1"
      [] href = "/level2" -> "https://c.test/level2"
      [] href = "/level3" -> "https://c.test/level3"
      [] OTHER -> href

\* url.Parse(u).Host
Host(u) ==
    CASE u \in {"https://a.test/", "https://a.test/p1", "https://a.test/p2",
                "https://a.test/p3"} -> "a.test"
      [] u = "https://b.test/x" -> "b.test"
      [] u \in {"https://c.test/", "https://c.test/level1",
                "https://c.test/level2", "https://c.test/level3"} -> "c.test"
      [] OTHER -> ""

\* Whether url.Parse accepts u.
Parseable(u) == u # BadURL

\* models.GenerateDocumentID: the first 16 hex digits of SHA-256 of the URL,
\* tabulated for the URLs of the site.
GenerateDocumentID(u) ==
    CASE u = "https://a.test/"     -> "72745e75dfc5db5e"
      [] u = "https://a.test/p1"   -> "7d8439f991556a00"
      [] u = "https://a.test/p2"   -> "0bea3fcea76a5ec0"
      [] u = "https://a.test/p3"   -> "27862c872f80aadc"
      [] u = "https://b.test/x"    -> "32387cfba16f75ec"
      [] u = "https://a.test/%zz"  -> "5f756c341e3d3648"
      [] u = "https://c.test/"       -> "9e28c26b8cba5348"
      [] u = "https://c.test/level1" -> "1795abb953dd096b"
      [] u = "https://c.test/level2" -> "d4f613ca33e61abc"
      [] u = "https://c.test/level3" -> "a296cf47cdd79952"
      [] OTHER -> "e3b0c44298fc1c14"

\* The name of the page file of URL u: GenerateDocumentID(doc.URL) + ".md".
PageFile(u) == GenerateDocumentID(u) \o ".md"

\* What a request can come to: a response below 400, a response of 400 or
\* more, no response at all.
FetchOutcomes == {"ok", "http_error", "unreachable"}

\* The prefix of the crawl run: scrapes/{host}/{timestamp}-{shortid}; the
\* run number stands for the timestamp and the hash of the nanosecond clock.
S3Prefix(u, run) == <<"scrapes", Host(u), run>>

InitScrape ==
    /\ CoordIdle
    /\ cfg \in [maxDepth : 0..MaxDepthBound, followLinks : BOOLEAN]
    /\ caller \in {"ScrapeToS3", "Scrape"}
    /\ startURL \in {HomeURL, BadURL}
    /\ ctxDone = FALSE
    /\ tpc = "start"
    /\ spc = "idle"
    /\ stack = <<>>
    /\ visited = {}
    /\ docs = <<>>
    /\ cancelled = FALSE
    /\ startErr = FALSE
    /\ scrapeRet = NoScrapeRet
    /\ di = 1
    /\ pageURLs = <<>>
    /\ store = EmptyStore
    /\ s3Ret = NoS3Ret
    /\ requests = <<>>
    /\ atCancel = <<>>
    /\ storeLog = <<>>
    /\ IngestIdle
    /\ BootIdle
    /\ EnrichIdle
    /\ CallbacksIdle
    /\ call = NoCall

\* The context is cancelled from outside (an interrupt), at any moment of
\* the run.
CtxCancel ==
    /\ ~ctxDone
    /\ tpc # "returned"
    /\ ctxDone' = TRUE
    /\ UNCHANGED <<cfg, caller, startURL, tpc, spc, stack, visited, docs,
                   cancelled, startErr, scrapeRet, di, pageURLs, store, s3Ret,
                   requests, atCancel, storeLog>>
    /\ UNCHANGED <<coordVars, ingestVars>>
    /\ UNCHANGED bootVars
    /\ UNCHANGED enrichVars
    /\ UNCHANGED callbackVars
    /\ UNCHANGED call

\* Scrape called on its own, as Pipeline.Run and the tests call it.
DirectScrapeCall ==
    /\ caller = "Scrape"
    /\ tpc = "start"
    /\ tpc' = "scraping"
    /\ spc' = "called"
    /\ UNCHANGED <<cfg, caller, startURL, ctxDone, stack, visited, docs,
                   cancelled, startErr, scrapeRet, di, pageURLs, store, s3Ret,
                   requests, atCancel, storeLog>>
    /\ UNCHANGED <<coordVars, ingestVars>>
    /\ UNCHANGED bootVars
    /\ UNCHANGED enrichVars
    /\ UNCHANGED callbackVars
    /\ UNCHANGED call

\* The direct caller has Scrape's result.
DirectScrapeReturn ==
    /\ caller = "Scrape"
    /\ tpc = "scraping"
    /\ spc = "returned"
    /\ tpc' = "returned"
    /\ UNCHANGED <<cfg, caller, startURL, ctxDone, spc, stack, visited, docs,
                   cancelled, startErr, scrapeRet, di, pageURLs, store, s3Ret,
                   requests, atCancel, storeLog>>
    /\ UNCHANGED <<coordVars, ingestVars>>
    /\ UNCHANGED bootVars
    /\ UNCHANGED enrichVars
    /\ UNCHANGED callbackVars
    /\ UNCHANGED call

\* Scrape, up to c.Visit(startURL): url.Parse fails and Scrape returns
\* nil and the error, or the collector is set up and the start visit queued
\* at depth 1.
ScrapeBegin ==
    /\ spc = "called"
    /\ IF ~Parseable(startURL)
       THEN /\ scrapeRet' = [returned |-> TRUE, docs |-> <<>>, err |-> "parse"]
            /\ spc' = "returned"
            /\ UNCHANGED stack
       ELSE /\ stack' = <<[url |-> startURL, depth |-> 1]>>
            /\ spc' = "visit"
            /\ UNCHANGED scrapeRet
    /\ UNCHANGED <<cfg, caller, startURL, ctxDone, tpc, visited, docs,
                   cancelled, startErr, di, pageURLs, store, s3Ret, requests,
                   atCancel, storeLog>>
    /\ UNCHANGED <<coordVars, ingestVars>>
    /\ UNCHANGED bootVars
    /\ UNCHANGED enrichVars
    /\ UNCHANGED callbackVars
    /\ UNCHANGED call

\* The collector's check of a visit before any callback runs: colly.MaxDepth
\* (0 is no limit) and no URL twice.
RequestAllowed(v) ==
    /\ ~(cfg.maxDepth > 0 /\ cfg.maxDepth < v.depth)
    /\ v.url \notin visited

\* An OnHTML callback that visits every link, whatever its host.
LinkVisits_AnyHost(u, d) ==
    LET abs == [k \in 1..Len(Links(u)) |-> AbsoluteURL(u, Links(u)[k])]
    IN [k \in 1..Len(abs) |-> [url |-> abs[k], depth |-> d + 1]]

\* A collector that gives a followed link the depth of the page it is on.
LinkVisits_SameDepth(u, d) ==
    LET abs == [k \in 1..Len(Links(u)) |-> AbsoluteURL(u, Links(u)[k])]
        same == SelectSeq(abs, LAMBDA a : Host(a) = Host(startURL))
    IN [k \in 1..Len(same) |-> [url |-> same[k], depth |-> d]]

\* The visits the OnHTML callback asks for on page u fetched at depth d: each
\* href made absolute, kept when its host is the start URL's host.
LinkVisits(u, d) ==
    LET abs == [k \in 1..Len(Links(u)) |-> AbsoluteURL(u, Links(u)[k])]
        same == SelectSeq(abs, LAMBDA a : Host(a) = Host(startURL))
    IN [k \in 1..Len(same) |-> [url |-> same[k], depth |-> d + 1]]

\* A visit the collector refuses (too deep, or visited before): Visit returns
\* an error, which the OnHTML callback drops.
VisitRefused ==
    /\ spc = "visit"
    /\ stack # <<>>
    /\ ~RequestAllowed(Head(stack))
    /\ stack' = Tail(stack)
    /\ UNCHANGED <<cfg, caller, startURL, ctxDone, tpc, spc, visited, docs,
                   cancelled, startErr, scrapeRet, di, pageURLs, store, s3Ret,
                   requests, atCancel, storeLog>>
    /\ UNCHANGED <<coordVars, ingestVars>>
    /\ UNCHANGED bootVars
    /\ UNCHANGED enrichVars
    /\ UNCHANGED callbackVars
    /\ UNCHANGED call

\* The mutant of OnRequestAborts: the callback does not look at the context.
OnRequestAborts_NoCheck(done) == FALSE

\* OnRequest: if ctx.Err() != nil { r.Abort(); cancelled = true }
OnRequestAborts(done) == done

\* One visit the collector allows: OnRequest aborts it on a cancelled
\* context, else the request is issued; a response below 400 reaches
\* OnResponse, which appends the document, and OnHTML, which visits the
\* page's links (when FollowLinks); any other outcome makes Visit return an
\* error.
VisitRequest ==
    /\ spc = "visit"
    /\ stack # <<>>
    /\ RequestAllowed(Head(stack))
    /\ LET v == Head(stack) IN
        /\ visited' = visited \cup {v.url}
        /\ IF OnRequestAborts(ctxDone)
           THEN /\ cancelled' = TRUE
                /\ atCancel' = IF cancelled THEN atCancel
                               ELSE <<[requests |-> requests, docs |-> docs]>>
                /\ stack' = Tail(stack)
                /\ UNCHANGED <<docs, startErr, requests>>
           ELSE \E out \in FetchOutcomes :
                /\ requests' = Append(requests,
                       [url |-> v.url, outcome |-> out, ctxDone |-> ctxDone])
                /\ IF out = "ok"
                   THEN /\ docs' = Append(docs, [url |-> v.url])
                        /\ stack' = (IF cfg.followLinks
                                     THEN LinkVisits(v.url, v.depth)
                                     ELSE <<>>) \o Tail(stack)
                        /\ UNCHANGED startErr
                   ELSE /\ stack' = Tail(stack)
                        /\ startErr' = (startErr \/ v.depth = 1)
                        /\ UNCHANGED docs
                /\ UNCHANGED <<cancelled, atCancel>>
    /\ UNCHANGED <<cfg, caller, startURL, ctxDone, tpc, spc, scrapeRet, di,
                   pageURLs, store, s3Ret, storeLog>>
    /\ UNCHANGED <<coordVars, ingestVars>>
    /\ UNCHANGED bootVars
    /\ UNCHANGED enrichVars
    /\ UNCHANGED callbackVars
    /\ UNCHANGED call

\* c.Visit(startURL) is back, every nested visit with it: a visit error
\* returns docs and nil; else c.Wait(), and a cancelled crawl returns docs
\* and ctx.Err(), any other docs and nil.
ScrapeReturn ==
    /\ spc = "visit"
    /\ stack = <<>>
    /\ scrapeRet' = [returned |-> TRUE, docs |-> docs,
                     err |-> IF startErr THEN "nil"
                             ELSE IF cancelled THEN "ctx" ELSE "nil"]
    /\ spc' = "returned"
    /\ UNCHANGED <<cfg, caller, startURL, ctxDone, tpc, stack, visited, docs,
                   cancelled, startErr, di, pageURLs, store, s3Ret, requests,
                   atCancel, storeLog>>
    /\ UNCHANGED <<coordVars, ingestVars>>
    /\ UNCHANGED bootVars
    /\ UNCHANGED enrichVars
    /\ UNCHANGED callbackVars
    /\ UNCHANGED call

\* ------------------------------------------------------------- ScrapeToS3

\* storage.ScrapeMetadata as ScrapeToS3 fills it in.
ScrapeMetadata(prefix, source, urlList) ==
    [prefix |-> prefix, sourceURL |-> source, pageCount |-> Len(urlList),
     pages |-> urlList]

\* ScrapeToS3, up to the call of Scrape: url.Parse fails and the run returns
\* "failed to parse URL", else the prefix is built and Scrape called.
ScrapeToS3Call ==
    /\ caller = "ScrapeToS3"
    /\ tpc = "start"
    /\ IF ~Parseable(startURL)
       THEN /\ s3Ret' = [NoS3Ret EXCEPT !.returned = TRUE, !.err = "parse"]
            /\ tpc' = "returned"
            /\ UNCHANGED spc
       ELSE /\ tpc' = "scraping"
            /\ spc' = "called"
            /\ UNCHANGED s3Ret
    /\ UNCHANGED <<cfg, caller, startURL, ctxDone, stack, visited, docs,
                   cancelled, startErr, scrapeRet, di, pageURLs, store,
                   requests, atCancel, storeLog>>
    /\ UNCHANGED <<coordVars, ingestVars>>
    /\ UNCHANGED bootVars
    /\ UNCHANGED enrichVars
    /\ UNCHANGED callbackVars
    /\ UNCHANGED call

\* The mutant of ScrapeFailed: any error of Scrape ends the run, the pages
\* collected or not.
ScrapeFailed_AnyError(ret) == ret.err # "nil"

\* Whether ScrapeToS3 gives up on what Scrape returned:
\* if err != nil && len(docs) == 0.
ScrapeFailed(ret) == ret.err # "nil" /\ Len(ret.docs) = 0

\* docs, err := s.Scrape(ctx, startURL) is back: "scrape failed" on an error
\* with no document, else on to the page writes.
ScrapeToS3AfterScrape ==
    /\ caller = "ScrapeToS3"
    /\ tpc = "scraping"
    /\ spc = "returned"
    /\ IF ScrapeFailed(scrapeRet)
       THEN /\ s3Ret' = [NoS3Ret EXCEPT !.returned = TRUE, !.err = "scrape"]
            /\ tpc' = "returned"
       ELSE /\ tpc' = "put"
            /\ UNCHANGED s3Ret
    /\ di' = 1
    /\ pageURLs' = <<>>
    /\ UNCHANGED <<cfg, caller, startURL, ctxDone, spc, stack, visited, docs,
                   cancelled, startErr, scrapeRet, store, requests, atCancel,
                   storeLog>>
    /\ UNCHANGED <<coordVars, ingestVars>>
    /\ UNCHANGED bootVars
    /\ UNCHANGED enrichVars
    /\ UNCHANGED callbackVars
    /\ UNCHANGED call

\* The mutant of PageURLsAfterPut: the URL is listed whatever PutMarkdown
\* returned.
PageURLsAfterPut_NoContinue(urlList, u, ok) == Append(urlList, u)

\* pageURLs after the write of u's page: a failed PutMarkdown is logged and
\* the loop continues, a written page has its URL appended.
PageURLsAfterPut(urlList, u, ok) == IF ok THEN Append(urlList, u) ELSE urlList

\* One turn of the loop over docs: PutMarkdown(prefix, filename, content)
\* writes the page file or fails.
ScrapeToS3PutPage ==
    /\ tpc = "put"
    /\ di <= Len(scrapeRet.docs)
    /\ LET u == scrapeRet.docs[di].url
           prefix == S3Prefix(startURL, 1)
       IN \E ok \in BOOLEAN :
        /\ store' = IF ok
                    THEN [store EXCEPT !.pages = @ \cup {<<prefix, PageFile(u)>>}]
                    ELSE store
        /\ pageURLs' = PageURLsAfterPut(pageURLs, u, ok)
        /\ storeLog' = Append(storeLog,
               [op |-> "page", prefix |-> prefix, ok |-> ok, docsLeft |-> Len(scrapeRet.docs) - di])
    /\ di' = di + 1
    /\ UNCHANGED <<cfg, caller, startURL, ctxDone, tpc, spc, stack, visited,
                   docs, cancelled, startErr, scrapeRet, s3Ret, requests,
                   atCancel>>
    /\ UNCHANGED <<coordVars, ingestVars>>
    /\ UNCHANGED bootVars
    /\ UNCHANGED enrichVars
    /\ UNCHANGED callbackVars
    /\ UNCHANGED call

\* After the loop: PutMetadata(prefix, meta) writes the manifest and the run
\* returns its ScrapeResult, or fails and the run returns "failed to write
\* metadata".
ScrapeToS3PutMetadata ==
    /\ tpc = "put"
    /\ di > Len(scrapeRet.docs)
    /\ LET prefix == S3Prefix(startURL, 1)
           manifest == ScrapeMetadata(prefix, startURL, pageURLs)
       IN \E ok \in BOOLEAN :
        /\ store' = IF ok
                    THEN [store EXCEPT !.manifests = @ \cup {manifest}]
                    ELSE store
        /\ storeLog' = Append(storeLog,
               [op |-> "meta", prefix |-> prefix, ok |-> ok, docsLeft |-> 0])
        /\ s3Ret' = IF ok
                    THEN [returned |-> TRUE, err |-> "nil", prefix |-> prefix,
                          pageCount |-> Len(pageURLs), sourceURL |-> startURL]
                    ELSE [NoS3Ret EXCEPT !.returned = TRUE, !.err = "metadata"]
    /\ tpc' = "returned"
    /\ UNCHANGED <<cfg, caller, startURL, ctxDone, spc, stack, visited, docs,
                   cancelled, startErr, scrapeRet, di, pageURLs, requests,
                   atCancel>>
    /\ UNCHANGED <<coordVars, ingestVars>>
    /\ UNCHANGED bootVars
    /\ UNCHANGED enrichVars
    /\ UNCHANGED callbackVars
    /\ UNCHANGED call

NextScrape ==
    \/ CtxCancel
    \/ DirectScrapeCall
    \/ DirectScrapeReturn
    \/ ScrapeBegin
    \/ VisitRefused
    \/ VisitRequest
    \/ ScrapeReturn
    \/ ScrapeToS3Call
    \/ ScrapeToS3AfterScrape
    \/ ScrapeToS3PutPage
    \/ ScrapeToS3PutMetadata

SpecScrape == InitScrape /\ [][NextScrape]_vars

\* The crawl of the chain: the same Scrape and ScrapeToS3, started on the
\* first page of the chain.
InitChain ==
    /\ CoordIdle
    /\ cfg \in [maxDepth : 0..MaxDepthBound, followLinks : BOOLEAN]
    /\ caller \in {"ScrapeToS3", "Scrape"}
    /\ startURL = ChainURL
    /\ ctxDone = FALSE
    /\ tpc = "start"
    /\ spc = "idle"
    /\ stack = <<>>
    /\ visited = {}
    /\ docs = <<>>
    /\ cancelled = FALSE
    /\ startErr = FALSE
    /\ scrapeRet = NoScrapeRet
    /\ di = 1
    /\ pageURLs = <<>>
    /\ store = EmptyStore
    /\ s3Ret = NoS3Ret
    /\ requests = <<>>
    /\ atCancel = <<>>
    /\ storeLog = <<>>
    /\ IngestIdle
    /\ BootIdle
    /\ EnrichIdle
    /\ CallbacksIdle
    /\ call = NoCall

SpecChain == InitChain /\ [][NextScrape]_vars

\* -------------------------------------------- the callbacks of Scrape, racing
\* Scrape with the collector free to run up to Parallelism fetches at once:
\* each fetch runs OnRequest, OnResponse and OnHTML in its own slot, and the
\* statements of OnResponse that touch docs are steps of their own, so that
\* every interleaving of two response callbacks is a behaviour.

\* A slot that lost the race for the mutex and takes it all the same.
MayLock_Unguarded(holder) == TRUE

\* mu.Lock() returns once no other callback holds the mutex.
MayLock(holder) == holder = 0

InitFetch ==
    /\ CoordIdle
    /\ EnvIdle
    /\ IngestIdle
    /\ BootIdle
    /\ EnrichIdle
    /\ cfg \in [maxDepth : 0..MaxDepthBound, followLinks : BOOLEAN]
    /\ caller = "Scrape"
    /\ startURL = HomeURL
    /\ tpc = "scraping"
    /\ spc = "visit"
    /\ stack = <<[url |-> startURL, depth |-> 1]>>
    /\ visited = {}
    /\ docs = <<>>
    /\ cancelled = FALSE
    /\ startErr = FALSE
    /\ scrapeRet = NoScrapeRet
    /\ di = 1
    /\ pageURLs = <<>>
    /\ s3Ret = NoS3Ret
    /\ requests = <<>>
    /\ atCancel = <<>>
    /\ storeLog = <<>>
    /\ slots = [s \in 1..Parallelism |-> FreeSlot]
    /\ mu = 0
    /\ call = NoCall

\* What the callback steps leave alone.
fetchRest == <<cfg, caller, startURL, tpc, startErr, di, pageURLs, s3Ret,
               atCancel, storeLog>>

\* The context is cancelled while the crawl runs.
FetchCtxCancel ==
    /\ ~ctxDone
    /\ spc = "visit"
    /\ ctxDone' = TRUE
    /\ UNCHANGED <<store, spc, stack, visited, docs, cancelled, scrapeRet,
                   requests, fetchRest, callbackVars>>
    /\ UNCHANGED <<coordVars, ingestVars, bootVars, enrichVars>>
    /\ UNCHANGED call

\* A visit the collector refuses: too deep, or a URL seen before.
FetchRefused ==
    /\ spc = "visit"
    /\ stack # <<>>
    /\ ~RequestAllowed(Head(stack))
    /\ stack' = Tail(stack)
    /\ UNCHANGED <<spc, visited, docs, cancelled, scrapeRet, requests,
                   fetchRest, callbackVars>>
    /\ UNCHANGED <<coordVars, envVars, ingestVars, bootVars, enrichVars>>
    /\ UNCHANGED call

\* A free slot takes the next visit: OnRequest aborts it on a cancelled
\* context; else the request goes out and its response comes back, and
\* OnResponse returns at once on a status of 400 or more.
FetchRequest ==
    /\ spc = "visit"
    /\ stack # <<>>
    /\ RequestAllowed(Head(stack))
    /\ \E s \in 1..Parallelism :
        /\ slots[s].pc = "free"
        /\ LET v == Head(stack) IN
            /\ visited' = visited \cup {v.url}
            /\ stack' = Tail(stack)
            /\ IF OnRequestAborts(ctxDone)
               THEN /\ cancelled' = TRUE
                    /\ UNCHANGED <<requests, slots>>
               ELSE \E out \in {"ok", "http_error"} :
                    /\ requests' = Append(requests,
                           [url |-> v.url, outcome |-> out, ctxDone |-> ctxDone])
                    /\ slots' = IF out = "ok"
                                THEN [slots EXCEPT ![s] =
                                         [pc |-> "lock", url |-> v.url,
                                          depth |-> v.depth, local |-> <<>>]]
                                ELSE slots
                    /\ UNCHANGED cancelled
    /\ UNCHANGED <<spc, docs, scrapeRet, mu, fetchRest>>
    /\ UNCHANGED <<coordVars, envVars, ingestVars, bootVars, enrichVars>>
    /\ UNCHANGED call

\* mu.Lock()
ResponseLock ==
    /\ \E s \in 1..Parallelism :
        /\ slots[s].pc = "lock"
        /\ MayLock(mu)
        /\ mu' = s
        /\ slots' = [slots EXCEPT ![s].pc = "read"]
    /\ UNCHANGED <<spc, stack, visited, docs, cancelled, scrapeRet, requests,
                   fetchRest>>
    /\ UNCHANGED <<coordVars, envVars, ingestVars, bootVars, enrichVars>>
    /\ UNCHANGED call

\* append(docs, doc) reads the slice ...
ResponseAppendRead ==
    /\ \E s \in 1..Parallelism :
        /\ slots[s].pc = "read"
        /\ slots' = [slots EXCEPT ![s].pc = "write", ![s].local = docs]
    /\ UNCHANGED <<spc, stack, visited, docs, cancelled, scrapeRet, requests,
                   mu, fetchRest>>
    /\ UNCHANGED <<coordVars, envVars, ingestVars, bootVars, enrichVars>>
    /\ UNCHANGED call

\* ... and docs = stores the longer one.
ResponseAppendWrite ==
    /\ \E s \in 1..Parallelism :
        /\ slots[s].pc = "write"
        /\ docs' = Append(slots[s].local, [url |-> slots[s].url])
        /\ slots' = [slots EXCEPT ![s].pc = "unlock", ![s].local = <<>>]
    /\ UNCHANGED <<spc, stack, visited, cancelled, scrapeRet, requests, mu,
                   fetchRest>>
    /\ UNCHANGED <<coordVars, envVars, ingestVars, bootVars, enrichVars>>
    /\ UNCHANGED call

\* mu.Unlock(), then OnHTML asks for the page's links and the slot is free.
ResponseUnlock ==
    /\ \E s \in 1..Parallelism :
        /\ slots[s].pc = "unlock"
        /\ mu' = IF mu = s THEN 0 ELSE mu
        /\ stack' = (IF cfg.followLinks
                     THEN LinkVisits(slots[s].url, slots[s].depth)
                     ELSE <<>>) \o stack
        /\ slots' = [slots EXCEPT ![s] = FreeSlot]
    /\ UNCHANGED <<spc, visited, docs, cancelled, scrapeRet, requests,
                   fetchRest>>
    /\ UNCHANGED <<coordVars, envVars, ingestVars, bootVars, enrichVars>>
    /\ UNCHANGED call

\* c.Wait() returns when no fetch is under way and none is pending; Scrape
\* returns docs, with ctx.Err() when a request was aborted.
FetchReturn ==
    /\ spc = "visit"
    /\ stack = <<>>
    /\ \A s \in 1..Parallelism : slots[s].pc = "free"
    /\ scrapeRet' = [returned |-> TRUE, docs |-> docs,
                     err |-> IF cancelled THEN "ctx" ELSE "nil"]
    /\ spc' = "returned"
    /\ UNCHANGED <<stack, visited, docs, cancelled, requests, fetchRest,
                   callbackVars>>
    /\ UNCHANGED <<coordVars, envVars, ingestVars, bootVars, enrichVars>>
    /\ UNCHANGED call

NextFetch ==
    \/ FetchCtxCancel
    \/ FetchRefused
    \/ FetchRequest
    \/ ResponseLock
    \/ ResponseAppendRead
    \/ ResponseAppendWrite
    \/ ResponseUnlock
    \/ FetchReturn

SpecFetch == InitFetch /\ [][NextFetch]_vars

\* ------------------------------------------------- ingestion: the documents

\* At most this many pages are in the stored run or in the crawl result.
MaxFiles == 3

\* At most this many things go wrong in one behaviour: a call that fails, a
\* context that is cancelled.
MaxFaults == 1

\* Ingest is called at most this many times on the prefix.
MaxRuns == 2

\* The pages of a.test in the order a crawl from HomeURL scrapes them.
CrawlOrder == <<"https://a.test/", "https://a.test/p1", "https://a.test/p2",
                "https://a.test/p3">>

\* The first n pages of the crawl.
FirstPages(n) ==
    SubSeq(CrawlOrder, 1, IF n < Len(CrawlOrder) THEN n ELSE Len(CrawlOrder))

\* The Content-Type header each page is served with.
ContentTypeOf(u) ==
    CASE u = "https://a.test/"   -> "text/html"
      [] u = "https://a.test/p1" -> "text/markdown; charset=utf-8"
      [] u = "https://a.test/p2" -> "text/plain"
      [] OTHER -> "text/html"

\* The body each page is served with: whether it starts like an HTML
\* document, whether it has markdown syntax, its first "# " heading, its
\* <title>, and that it is the body as served.
PageBody(u) ==
    CASE u = "https://a.test/" ->
            [of |-> u, html |-> TRUE, patterns |-> FALSE, h1 |-> "",
             title |-> "Home", form |-> "raw"]
      [] u = "https://a.test/p1" ->
            [of |-> u, html |-> FALSE, patterns |-> FALSE, h1 |-> "",
             title |-> "", form |-> "raw"]
      [] u = "https://a.test/p2" ->
            [of |-> u, html |-> FALSE, patterns |-> TRUE, h1 |-> "Guide",
             title |-> "", form |-> "raw"]
      [] OTHER ->
            [of |-> u, html |-> FALSE, patterns |-> FALSE, h1 |-> "",
             title |-> "", form |-> "raw"]

\* markdown.IsMarkdownContentType: the header starts with text/markdown or
\* text/x-markdown.
IsMarkdownContentType(contentType) ==
    contentType \in {"text/markdown", "text/markdown; charset=utf-8",
                     "text/x-markdown", "Text/Markdown"}

\* A URL as the markdown package looks at it: cut into the parts its tests
\* tell apart. Of the URLs and names of the crawl, a page file name is its
\* id and the suffix .md, any other is one part.
Parts(url) ==
    IF \E u \in PageURLs : url = PageFile(u)
    THEN <<GenerateDocumentID(CHOOSE u \in PageURLs : url = PageFile(u)), ".md">>
    ELSE <<url>>

\* strings.ToLower on a part.
ToLower(part) ==
    CASE part = ".MD" -> ".md"
      [] part = "README" -> "readme"
      [] OTHER -> part

\* markdown.IsMarkdownURL: the URL in lower case ends in .md or .markdown.
IsMarkdownURL(url) ==
    url # <<>> /\ ToLower(url[Len(url)]) \in {".md", ".markdown"}

\* markdown.IsMarkdownContent: not HTML by its first tag, and markdown
\* syntax somewhere.
IsMarkdownContent(content) == ~content.html /\ content.patterns

\* markdown.Detect: Content-Type, then URL, then the content heuristics.
Detect(url, contentType, content) ==
    \/ IsMarkdownContentType(contentType)
    \/ IsMarkdownURL(url)
    \/ IsMarkdownContent(content)

\* extractMarkdownTitle: the first "# " heading, or "".
ExtractMarkdownTitle(content) == content.h1

\* processor.ExtractTitle: the text of <title>, or "".
ExtractTitle(content) == content.title

\* processor.Convert on success: the markdown rendering of the HTML.
Convert(content) ==
    [content EXCEPT !.html = FALSE, !.title = "", !.form = "converted"]

\* What the model answers to the tags prompt for a page, already split on
\* commas and trimmed: an entry of "" is a blank between two commas.
TagsResponse(u) ==
    CASE u = "https://a.test/"   -> <<"home", "", "start">>
      [] u = "https://a.test/p1" -> <<"guide">>
      [] OTHER -> <<"">>

\* EnrichDocument's loop over the split response: empty entries are dropped.
ParseTags(resp) == SelectSeq(resp, LAMBDA t : t # "")

\* What the model answers to the summary prompt.
SummaryResponse(u) == "summary of " \o u

\* The vector the embeddings service returns.
EmbedResponse(u) == <<GenerateDocumentID(u), "vector">>

\* doc.Tags, doc.Summary and doc.Embedding when no call has filled them in.
NoTags == <<>>

NoSummary == ""

NoEmbedding == <<>>

\* The calls one document goes through, each TRUE when it succeeds.
Outcomes == [get : BOOLEAN, conv : BOOLEAN, tags : BOOLEAN, summary : BOOLEAN,
             embed : BOOLEAN, index : BOOLEAN]

\* llm.Client.EnrichDocument: the tags completion, then the summary
\* completion; either failing returns (nil, err).
EnrichDocument(title, content, o) ==
    IF ~o.tags THEN [err |-> TRUE, tags |-> NoTags, summary |-> NoSummary]
    ELSE IF ~o.summary
         THEN [err |-> TRUE, tags |-> NoTags, summary |-> NoSummary]
         ELSE [err |-> FALSE, tags |-> ParseTags(TagsResponse(content.of)),
               summary |-> SummaryResponse(content.of)]

\* The one `return nil, err` of processDocument, and the one `continue` of
\* the loop of Run before the document is built: Convert failed.
ConvertFails(pageURL, contentType, content, o) ==
    ~Detect(Parts(pageURL), contentType, content) /\ ~o.conv

\* The mutant of ProcessFails: a failed enrichment call is returned as an
\* error too.
ProcessFails_OnEnrichment(pageURL, contentType, content, o) ==
    \/ ConvertFails(pageURL, contentType, content, o)
    \/ llmOn /\ EnrichDocument(pageURL, content, o).err
    \/ embedOn /\ ~o.embed

\* Whether the document is given up before IndexDocument: on a failed
\* conversion only; a failed EnrichDocument or Embed is logged with
\* slog.Warn and the document goes on.
ProcessFails(pageURL, contentType, content, o) ==
    ConvertFails(pageURL, contentType, content, o)

\* The models.Document built for a page: contentType is what Detect is given
\* ("" in Ingest), docType what the document's ContentType is set to.
BuildDocument(pageURL, contentType, docType, content, o) ==
    LET isMarkdown == Detect(Parts(pageURL), contentType, content)
        mdContent == IF isMarkdown THEN content ELSE Convert(content)
        found == IF isMarkdown THEN ExtractMarkdownTitle(content)
                               ELSE ExtractTitle(content)
        title == IF found = "" THEN pageURL ELSE found
        enrichment == EnrichDocument(title, mdContent, o)
    IN [id |-> GenerateDocumentID(pageURL),
        url |-> pageURL,
        title |-> title,
        content |-> mdContent,
        contentType |-> docType,
        tags |-> IF llmOn /\ ~enrichment.err THEN enrichment.tags ELSE NoTags,
        summary |-> IF llmOn /\ ~enrichment.err THEN enrichment.summary
                                                ELSE NoSummary,
        embedding |-> IF embedOn /\ o.embed THEN EmbedResponse(mdContent.of)
                                            ELSE NoEmbedding]

\* Which calls the loop makes for one document, given how the calls before
\* each come out; get says whether the content is read from the store.
CallsMade(get, pageURL, contentType, content, o) ==
    LET read == get => o.get
        built == read /\ ~ConvertFails(pageURL, contentType, content, o)
    IN [get |-> get,
        conv |-> read /\ ~Detect(Parts(pageURL), contentType, content),
        tags |-> built /\ llmOn,
        summary |-> built /\ llmOn /\ o.tags,
        embed |-> built /\ embedOn,
        index |-> read /\ ~ProcessFails(pageURL, contentType, content, o)]

\* An outcome says nothing about calls that are not made.
OutcomeOf(made, o) == \A c \in DOMAIN o : ~made[c] => o[c]

\* How many calls of an outcome fail.
FaultCount(o) == Cardinality({c \in DOMAIN o : ~o[c]})

\* The mutant of DocEntry: a failed IndexDocument is logged but not appended
\* to result.Errors.
DocEntry_IndexErrorDropped(get, pageURL, contentType, docType, content, o) ==
    LET made == CallsMade(get, pageURL, contentType, content, o)
        read == get => o.get
    IN [url |-> pageURL,
        o |-> o,
        made |-> made,
        submitted |-> made.index,
        doc |-> BuildDocument(pageURL, contentType, docType, content, o),
        errors |-> (IF ~read THEN <<"get">> ELSE <<>>)
                   \o (IF read /\ ProcessFails(pageURL, contentType, content, o)
                       THEN <<"process">> ELSE <<>>),
        indexed |-> made.index /\ o.index]

\* What one turn of the loop does with a document: the calls made, the
\* document submitted to IndexDocument if any, the entries appended to
\* result.Errors, and whether DocsIndexed is incremented.
DocEntry(get, pageURL, contentType, docType, content, o) ==
    LET made == CallsMade(get, pageURL, contentType, content, o)
        read == get => o.get
    IN [url |-> pageURL,
        o |-> o,
        made |-> made,
        submitted |-> made.index,
        doc |-> BuildDocument(pageURL, contentType, docType, content, o),
        errors |-> (IF ~read THEN <<"get">> ELSE <<>>)
                   \o (IF read /\ ProcessFails(pageURL, contentType, content, o)
                       THEN <<"process">> ELSE <<>>)
                   \o (IF made.index /\ ~o.index THEN <<"index">> ELSE <<>>),
        indexed |-> made.index /\ o.index]

\* A mutant of IndexUpsert: a document whose id is in the index is not
\* written again.
IndexUpsert_KeepFirst(ix, doc) ==
    IF \E k \in 1..Len(ix) : ix[k].id = doc.id THEN ix ELSE Append(ix, doc)

\* The mutant of IndexUpsert: the document is added whether its id is in the
\* index or not.
IndexUpsert_Append(ix, doc) == Append(ix, doc)

\* es.Index with WithDocumentID(doc.ID): the document replaces the one of
\* the same id, or is added.
IndexUpsert(ix, doc) ==
    IF \E k \in 1..Len(ix) : ix[k].id = doc.id
    THEN [k \in 1..Len(ix) |-> IF ix[k].id = doc.id THEN doc ELSE ix[k]]
    ELSE Append(ix, doc)

\* ---------------------------------------------------------- Engine.Ingest

\* The prefix of the stored run that is ingested.
StoredPrefix == S3Prefix(HomeURL, 1)

\* The bucket after a ScrapeToS3 run that stored the first n pages and the
\* manifest.
StoredRun(n) ==
    [pages |-> {<<StoredPrefix, PageFile(FirstPages(n)[k])>> :
                    k \in 1..Len(FirstPages(n))},
     manifests |-> {ScrapeMetadata(StoredPrefix, HomeURL, FirstPages(n))}]

\* The bucket after a ScrapeToS3 run whose PutMetadata failed.
StoredRunNoManifest(n) == [StoredRun(n) EXCEPT !.manifests = {}]

\* The page file names in the order the bucket lists its keys.
FileOrder == <<"0bea3fcea76a5ec0.md", "27862c872f80aadc.md",
               "32387cfba16f75ec.md", "5f756c341e3d3648.md",
               "72745e75dfc5db5e.md", "7d8439f991556a00.md",
               "e3b0c44298fc1c14.md">>

\* storage.ListMarkdownFiles: the base names of the .md objects under
\* {prefix}/pages/.
ListMarkdownFiles(st, prefix) ==
    SelectSeq(FileOrder, LAMBDA f : <<prefix, f>> \in st.pages)

\* storage.GetMarkdown: the content stored under the file name, which is the
\* body of the page the name was generated from.
GetMarkdown(filename) ==
    PageBody(CHOOSE u \in PageURLs : PageFile(u) = filename)

\* The mutant of PageURLOf: the manifest is not consulted and the file name
\* stands for the URL.
PageURLOf_FileName(manifest, filename) == filename

\* urlToFile[filename], with the fallback to the file name when the manifest
\* has no page of that name.
PageURLOf(manifest, filename) ==
    LET ks == {k \in 1..Len(manifest.pages) :
                   PageFile(manifest.pages[k]) = filename}
    IN IF ks = {} THEN filename
       ELSE manifest.pages[CHOOSE k \in ks : \A j \in ks : j <= k]

\* The ids of the documents of an index, in the order they were added.
IndexIDs(ix) == [k \in 1..Len(ix) |-> ix[k].id]

\* The record a returning run leaves in runLog.
RunEntry(res, ix, log, failed) ==
    [err |-> failed,
     docsIndexed |-> res.docsIndexed,
     errors |-> res.errors,
     ids |-> IndexIDs(ix),
     clean |-> /\ ~failed
               /\ res.errors = <<>>
               /\ \A k \in 1..Len(log) : FaultCount(log[k].o) = 0]

InitIngest ==
    /\ CoordIdle
    /\ ScrapeIdle
    /\ ctxDone = FALSE
    /\ mode \in {"ingest", "run"}
    /\ llmOn \in BOOLEAN
    /\ embedOn \in BOOLEAN
    /\ \E n \in 0..MaxFiles :
        store \in IF mode = "ingest"
                  THEN {StoredRun(n), StoredRunNoManifest(n)}
                  ELSE {EmptyStore}
    /\ prefixArg = StoredPrefix
    /\ ipc = "start"
    /\ meta = {}
    /\ files = <<>>
    /\ fi = 1
    /\ result = EmptyResult
    /\ index = <<>>
    /\ ingestRet = NoIngestRet
    /\ faults = 0
    /\ stopped = FALSE
    /\ docLog = <<>>
    /\ runLog = <<>>
    /\ BootIdle
    /\ EnrichIdle
    /\ CallbacksIdle
    /\ call = NoCall

\* The context is cancelled while Ingest or Run is running.
IngestCtxCancel ==
    /\ ipc \notin {"start", "returned"}
    /\ ~ctxDone
    /\ faults < MaxFaults
    /\ ctxDone' = TRUE
    /\ faults' = faults + 1
    /\ UNCHANGED <<mode, llmOn, embedOn, prefixArg, ipc, meta, files, fi,
                   result, index, ingestRet, stopped, docLog, runLog>>
    /\ UNCHANGED <<store, coordVars, scrapeVars>>
    /\ UNCHANGED bootVars
    /\ UNCHANGED enrichVars
    /\ UNCHANGED callbackVars
    /\ UNCHANGED call

\* The mutant of ReturnError: the failed setup call is logged and the run
\* returns its empty result with a nil error.
ReturnError_Swallowed ==
    /\ ipc' = "returned"
    /\ ingestRet' = [returned |-> TRUE, err |-> FALSE]
    /\ runLog' = Append(runLog, RunEntry(result, index, docLog, TRUE))
    /\ UNCHANGED <<meta, files, fi, result, index, stopped, docLog>>

\* A setup call of Ingest or Run fails: `return nil, err`.
ReturnError ==
    /\ ipc' = "returned"
    /\ ingestRet' = [returned |-> TRUE, err |-> TRUE]
    /\ runLog' = Append(runLog, RunEntry(result, index, docLog, TRUE))
    /\ UNCHANGED <<meta, files, fi, result, index, stopped, docLog>>

\* result := &Result{Prefix: prefix}; esClient.CreateIndex(ctx).
IngestCreateIndex ==
    /\ mode = "ingest"
    /\ ipc = "start"
    /\ \E ok \in BOOLEAN :
        /\ ~ok => faults < MaxFaults
        /\ faults' = IF ok THEN faults ELSE faults + 1
        /\ IF ok
           THEN /\ ipc' = "meta"
                /\ UNCHANGED <<meta, files, fi, result, index, ingestRet,
                               stopped, docLog, runLog>>
           ELSE ReturnError
    /\ UNCHANGED <<mode, llmOn, embedOn, prefixArg>>
    /\ UNCHANGED <<envVars, coordVars, scrapeVars>>
    /\ UNCHANGED bootVars
    /\ UNCHANGED enrichVars
    /\ UNCHANGED callbackVars
    /\ UNCHANGED call

\* storage.GetMetadata(ctx, prefix): the manifest, or an error when there is
\* none or the read fails.
IngestGetMetadata ==
    /\ mode = "ingest"
    /\ ipc = "meta"
    /\ LET stored == {m \in store.manifests : m.prefix = prefixArg}
       IN \E ok \in BOOLEAN :
        /\ ok => stored # {}
        /\ (~ok /\ stored # {}) => faults < MaxFaults
        /\ faults' = IF ok \/ stored = {} THEN faults ELSE faults + 1
        /\ IF ok
           THEN /\ meta' = stored
                /\ ipc' = "list"
                /\ UNCHANGED <<files, fi, result, index, ingestRet, stopped,
                               docLog, runLog>>
           ELSE ReturnError
    /\ UNCHANGED <<mode, llmOn, embedOn, prefixArg>>
    /\ UNCHANGED <<envVars, coordVars, scrapeVars>>
    /\ UNCHANGED bootVars
    /\ UNCHANGED enrichVars
    /\ UNCHANGED callbackVars
    /\ UNCHANGED call

\* storage.ListMarkdownFiles(ctx, prefix).
IngestListFiles ==
    /\ mode = "ingest"
    /\ ipc = "list"
    /\ \E ok \in BOOLEAN :
        /\ ~ok => faults < MaxFaults
        /\ faults' = IF ok THEN faults ELSE faults + 1
        /\ IF ok
           THEN /\ files' = ListMarkdownFiles(store, prefixArg)
                /\ fi' = 1
                /\ ipc' = "loop"
                /\ UNCHANGED <<meta, result, index, ingestRet, stopped,
                               docLog, runLog>>
           ELSE ReturnError
    /\ UNCHANGED <<mode, llmOn, embedOn, prefixArg>>
    /\ UNCHANGED <<envVars, coordVars, scrapeVars>>
    /\ UNCHANGED bootVars
    /\ UNCHANGED enrichVars
    /\ UNCHANGED callbackVars
    /\ UNCHANGED call

\* The mutant of CtxCancelled: the loop never sees the context cancelled.
CtxCancelled_Never(done) == FALSE

\* `ctx.Err() != nil` at the head of the loop over files.
CtxCancelled(done) == done

\* What a turn of the loop leaves: the entry logged, its errors appended,
\* the document upserted and counted when IndexDocument succeeds.
LoopTurn(entry) ==
    /\ faults + FaultCount(entry.o) <= MaxFaults
    /\ faults' = faults + FaultCount(entry.o)
    /\ docLog' = Append(docLog, entry)
    /\ result' = [docsIndexed |-> result.docsIndexed
                                     + (IF entry.indexed THEN 1 ELSE 0),
                  errors |-> result.errors \o entry.errors]
    /\ index' = IF entry.indexed THEN IndexUpsert(index, entry.doc) ELSE index
    /\ fi' = fi + 1

\* One turn of `for _, filename := range files` with a live context:
\* GetMarkdown, processDocument, IndexDocument.
IngestFile ==
    /\ mode = "ingest"
    /\ ipc = "loop"
    /\ fi <= Len(files)
    /\ ~CtxCancelled(ctxDone)
    /\ LET filename == files[fi]
           manifest == CHOOSE m \in meta : TRUE
           pageURL == PageURLOf(manifest, filename)
           content == GetMarkdown(filename)
       IN \E o \in Outcomes :
        /\ OutcomeOf(CallsMade(TRUE, pageURL, "", content, o), o)
        /\ LoopTurn(DocEntry(TRUE, pageURL, "", "", content, o))
    /\ UNCHANGED <<mode, llmOn, embedOn, prefixArg, ipc, meta, files,
                   ingestRet, stopped, runLog>>
    /\ UNCHANGED <<envVars, coordVars, scrapeVars>>
    /\ UNCHANGED bootVars
    /\ UNCHANGED enrichVars
    /\ UNCHANGED callbackVars
    /\ UNCHANGED call

\* A turn of the loop with the context cancelled: "context cancelled" is
\* appended and the loop left; Refresh, and the result is returned.
IngestCancelled ==
    /\ mode = "ingest"
    /\ ipc = "loop"
    /\ fi <= Len(files)
    /\ CtxCancelled(ctxDone)
    /\ LET res == [result EXCEPT !.errors = Append(@, "context cancelled")]
       IN /\ result' = res
          /\ runLog' = Append(runLog, RunEntry(res, index, docLog, FALSE))
    /\ stopped' = TRUE
    /\ ipc' = "returned"
    /\ ingestRet' = [returned |-> TRUE, err |-> FALSE]
    /\ UNCHANGED <<mode, llmOn, embedOn, prefixArg, meta, files, fi, index,
                   faults, docLog>>
    /\ UNCHANGED <<envVars, coordVars, scrapeVars>>
    /\ UNCHANGED bootVars
    /\ UNCHANGED enrichVars
    /\ UNCHANGED callbackVars
    /\ UNCHANGED call

\* The loop is through: Refresh, whose error is dropped, and
\* `return result, nil`.
IngestFinish ==
    /\ mode = "ingest"
    /\ ipc = "loop"
    /\ fi > Len(files)
    /\ runLog' = Append(runLog, RunEntry(result, index, docLog, FALSE))
    /\ ipc' = "returned"
    /\ ingestRet' = [returned |-> TRUE, err |-> FALSE]
    /\ UNCHANGED <<mode, llmOn, embedOn, prefixArg, meta, files, fi, result,
                   index, faults, stopped, docLog>>
    /\ UNCHANGED <<envVars, coordVars, scrapeVars>>
    /\ UNCHANGED bootVars
    /\ UNCHANGED enrichVars
    /\ UNCHANGED callbackVars
    /\ UNCHANGED call

\* Ingest is called again on the same prefix, with a fresh context.
IngestAgain ==
    /\ mode = "ingest"
    /\ ipc = "returned"
    /\ Len(runLog) < MaxRuns
    /\ ipc' = "start"
    /\ ctxDone' = FALSE
    /\ meta' = {}
    /\ files' = <<>>
    /\ fi' = 1
    /\ result' = EmptyResult
    /\ ingestRet' = NoIngestRet
    /\ stopped' = FALSE
    /\ docLog' = <<>>
    /\ UNCHANGED <<mode, llmOn, embedOn, prefixArg, index, faults, runLog>>
    /\ UNCHANGED <<store, coordVars, scrapeVars>>
    /\ UNCHANGED bootVars
    /\ UNCHANGED enrichVars
    /\ UNCHANGED callbackVars
    /\ UNCHANGED call

\* ----------------------------------------------------------- Pipeline.Run

\* result := &Result{}; esClient.CreateIndex(ctx).
RunCreateIndex ==
    /\ mode = "run"
    /\ ipc = "start"
    /\ \E ok \in BOOLEAN :
        /\ ~ok => faults < MaxFaults
        /\ faults' = IF ok THEN faults ELSE faults + 1
        /\ IF ok
           THEN /\ ipc' = "scrape"
                /\ UNCHANGED <<meta, files, fi, result, index, ingestRet,
                               stopped, docLog, runLog>>
           ELSE ReturnError
    /\ UNCHANGED <<mode, llmOn, embedOn, prefixArg>>
    /\ UNCHANGED <<envVars, coordVars, scrapeVars>>
    /\ UNCHANGED bootVars
    /\ UNCHANGED enrichVars
    /\ UNCHANGED callbackVars
    /\ UNCHANGED call

\* scraper.Scrape(ctx, startURL): the pages scraped, and ctx.Err() when the
\* crawl was cancelled, which is appended to result.Errors.
RunScrape ==
    /\ mode = "run"
    /\ ipc = "scrape"
    /\ \E n \in 0..MaxFiles, cancel \in BOOLEAN, err \in BOOLEAN :
        /\ err => (ctxDone \/ cancel)
        /\ ctxDone => (err /\ n = 0 /\ ~cancel)
        /\ cancel => faults < MaxFaults
        /\ faults' = IF cancel THEN faults + 1 ELSE faults
        /\ ctxDone' = (ctxDone \/ cancel)
        /\ files' = FirstPages(n)
        /\ result' = [result EXCEPT
                         !.errors = IF err THEN Append(@, "scrape") ELSE @]
    /\ fi' = 1
    /\ ipc' = "loop"
    /\ UNCHANGED <<mode, llmOn, embedOn, prefixArg, meta, index, ingestRet,
                   stopped, docLog, runLog>>
    /\ UNCHANGED <<store, coordVars, scrapeVars>>
    /\ UNCHANGED bootVars
    /\ UNCHANGED enrichVars
    /\ UNCHANGED callbackVars
    /\ UNCHANGED call

\* One turn of `for _, scraped := range scrapedDocs`: Detect, Convert,
\* EnrichDocument, Embed, IndexDocument.
RunDocument ==
    /\ mode = "run"
    /\ ipc = "loop"
    /\ fi <= Len(files)
    /\ LET pageURL == files[fi]
           contentType == ContentTypeOf(pageURL)
           content == PageBody(pageURL)
       IN \E o \in Outcomes :
        /\ OutcomeOf(CallsMade(FALSE, pageURL, contentType, content, o), o)
        /\ LoopTurn(DocEntry(FALSE, pageURL, contentType, contentType,
                             content, o))
    /\ UNCHANGED <<mode, llmOn, embedOn, prefixArg, ipc, meta, files,
                   ingestRet, stopped, runLog>>
    /\ UNCHANGED <<envVars, coordVars, scrapeVars>>
    /\ UNCHANGED bootVars
    /\ UNCHANGED enrichVars
    /\ UNCHANGED callbackVars
    /\ UNCHANGED call

\* The loop is through: Refresh, whose error is dropped, and
\* `return result, nil`.
RunFinish ==
    /\ mode = "run"
    /\ ipc = "loop"
    /\ fi > Len(files)
    /\ runLog' = Append(runLog, RunEntry(result, index, docLog, FALSE))
    /\ ipc' = "returned"
    /\ ingestRet' = [returned |-> TRUE, err |-> FALSE]
    /\ UNCHANGED <<mode, llmOn, embedOn, prefixArg, meta, files, fi, result,
                   index, faults, stopped, docLog>>
    /\ UNCHANGED <<envVars, coordVars, scrapeVars>>
    /\ UNCHANGED bootVars
    /\ UNCHANGED enrichVars
    /\ UNCHANGED callbackVars
    /\ UNCHANGED call

NextIngest ==
    \/ IngestCtxCancel
    \/ IngestCreateIndex
    \/ IngestGetMetadata
    \/ IngestListFiles
    \/ IngestFile
    \/ IngestCancelled
    \/ IngestFinish
    \/ IngestAgain
    \/ RunCreateIndex
    \/ RunScrape
    \/ RunDocument
    \/ RunFinish

SpecIngest == InitIngest /\ [][NextIngest]_vars

\* ------------------------------------------------ the commands, up to work

\* storage.New: the checks on the configuration.
StorageNew(c) ==
    IF c.endpoint = "" THEN "endpoint is required"
    ELSE IF c.bucket = "" THEN "bucket is required"
    ELSE ""

\* embeddings.New: the checks on the configuration.
EmbeddingsNew(c) ==
    IF c.socketPath = "" THEN "socket path is required"
    ELSE IF c.model = "" THEN "model is required"
    ELSE ""

\* llm.New: the checks on the configuration.
LLMNew(c) ==
    IF c.socketPath = "" THEN "socket path is required"
    ELSE IF c.model = "" THEN "model is required"
    ELSE ""

\* The optional clients, created in this order when enabled: embeddings,
\* then LLM; the first error is returned.
OptionalClients(c) ==
    IF c.embeddings.enabled /\ EmbeddingsNew(c.embeddings) # ""
    THEN "failed to create embeddings client"
    ELSE IF c.llm.enabled /\ LLMNew(c.llm) # ""
         THEN "failed to create LLM client"
         ELSE ""

\* The command returns an error.
Fail(msg) ==
    /\ bpc' = "failed"
    /\ bootErr' = msg

InitBoot ==
    /\ CoordIdle
    /\ ScrapeIdle
    /\ EnvIdle
    /\ IngestIdle
    /\ conf \in [command : {"scrape", "ingest"},
                 noIngest : BOOLEAN,
                 endpoint : {"", "localhost:9002"},
                 bucket : {"", "bam-rag"},
                 embeddings : [enabled : BOOLEAN,
                               socketPath : {"", "/run/dmr.sock"},
                               model : {"", "ai/embeddinggemma"}],
                 llm : [enabled : BOOLEAN,
                        socketPath : {"", "/run/dmr.sock"},
                        model : {"", "ai/gemma3"}]]
    /\ bpc = "start"
    /\ flow = "none"
    /\ bucketExists \in BOOLEAN
    /\ bucketMade = FALSE
    /\ bootErr = ""
    /\ EnrichIdle
    /\ CallbacksIdle
    /\ call = NoCall

\* runScrape: the event-driven flow when a storage endpoint is configured,
\* else the legacy pipeline.
RunScrapeCommand ==
    /\ bpc = "start"
    /\ conf.command = "scrape"
    /\ IF conf.endpoint # ""
       THEN bpc' = "storage" /\ flow' = "event"
       ELSE bpc' = "clients" /\ flow' = "legacy"
    /\ UNCHANGED <<conf, bucketExists, bucketMade, bootErr>>
    /\ UNCHANGED <<coordVars, scrapeVars, envVars, ingestVars>>
    /\ UNCHANGED enrichVars
    /\ UNCHANGED callbackVars
    /\ UNCHANGED call

\* runIngest: "storage not configured" without an endpoint.
RunIngestCommand ==
    /\ bpc = "start"
    /\ conf.command = "ingest"
    /\ IF conf.endpoint = ""
       THEN Fail("storage not configured") /\ UNCHANGED flow
       ELSE bpc' = "storage" /\ flow' = "ingest" /\ UNCHANGED bootErr
    /\ UNCHANGED <<conf, bucketExists, bucketMade>>
    /\ UNCHANGED <<coordVars, scrapeVars, envVars, ingestVars>>
    /\ UNCHANGED enrichVars
    /\ UNCHANGED callbackVars
    /\ UNCHANGED call

\* storage.New in runEventDrivenScrape and runIngest.
NewStorageClient ==
    /\ bpc = "storage"
    /\ IF StorageNew(conf) # ""
       THEN Fail("failed to create storage client")
       ELSE /\ bpc' = IF flow = "event" THEN "bucket" ELSE "clients"
            /\ UNCHANGED bootErr
    /\ UNCHANGED <<conf, flow, bucketExists, bucketMade>>
    /\ UNCHANGED <<coordVars, scrapeVars, envVars, ingestVars>>
    /\ UNCHANGED enrichVars
    /\ UNCHANGED callbackVars
    /\ UNCHANGED call

\* storageClient.EnsureBucket in runEventDrivenScrape: BucketExists, then
\* MakeBucket when the bucket is not there; after it runScrapeOnly starts
\* its work under --no-ingest, else runScrapeWithIngest creates its clients.
EnsureBucket ==
    /\ bpc = "bucket"
    /\ \E checked \in BOOLEAN, made \in BOOLEAN :
        IF ~checked
        THEN Fail("failed to ensure bucket") /\ UNCHANGED <<flow, bucketExists, bucketMade>>
        ELSE IF ~bucketExists /\ ~made
        THEN Fail("failed to ensure bucket") /\ UNCHANGED <<flow, bucketExists, bucketMade>>
        ELSE /\ bucketMade' = ~bucketExists
             /\ bucketExists' = TRUE
             /\ bpc' = IF conf.noIngest THEN "work" ELSE "clients"
             /\ flow' = IF conf.noIngest THEN "scrapeonly" ELSE flow
             /\ UNCHANGED bootErr
    /\ UNCHANGED conf
    /\ UNCHANGED <<coordVars, scrapeVars, envVars, ingestVars>>
    /\ UNCHANGED enrichVars
    /\ UNCHANGED callbackVars
    /\ UNCHANGED call

\* The clients created by runScrapeWithIngest, runIngest and pipeline.New
\* before the first target: embeddings and LLM when enabled.
NewOptionalClients ==
    /\ bpc = "clients"
    /\ IF OptionalClients(conf) # ""
       THEN Fail(OptionalClients(conf))
       ELSE bpc' = "work" /\ UNCHANGED bootErr
    /\ UNCHANGED <<conf, flow, bucketExists, bucketMade>>
    /\ UNCHANGED <<coordVars, scrapeVars, envVars, ingestVars>>
    /\ UNCHANGED enrichVars
    /\ UNCHANGED callbackVars
    /\ UNCHANGED call

NextBoot ==
    \/ RunScrapeCommand
    \/ RunIngestCommand
    \/ NewStorageClient
    \/ EnsureBucket
    \/ NewOptionalClients

SpecBoot == InitBoot /\ [][NextBoot]_vars

\* ------------------------------------------------ the model calls of a run
\* Engine.Ingest (event-driven flow, one call per event the worker receives)
\* and Pipeline.Run (direct flow, one call per target) walked call by call:
\* every request to the model runner is sent and answered in two steps, so
\* that the calls in flight at any moment are part of the state.

ModelCalls == {"tags", "summary", "embed"}

\* The goroutine has reached the statement named `at`.
About(at) == [at |-> at, waiting |-> FALSE]

\* The goroutine is inside the model call `kind`, blocked in httpClient.Do.
InCall(kind) == [at |-> kind, waiting |-> TRUE]

\* processDocument after the enrichment block: the embedding when enabled.
AfterEnrichment(embed) == IF embed THEN About("embed") ELSE About("index")

\* processDocument once title and markdown are known.
AfterConvert(llm, embed) ==
    IF llm THEN About("tags") ELSE AfterEnrichment(embed)

\* Where the goroutine goes when the call `kind` has returned: EnrichDocument
\* returns on a failed tags call and asks for the summary otherwise.
AfterAnswer(kind, ok, embed) ==
    CASE kind = "tags" -> IF ok THEN About("summary") ELSE AfterEnrichment(embed)
      [] kind = "summary" -> AfterEnrichment(embed)
      [] kind = "embed" -> About("index")

\* A client that hands the request to the transport and carries on.
AfterSend_NotAwaited(kind, embed) == AfterAnswer(kind, TRUE, embed)

\* Complete and Embed call httpClient.Do, which returns with the response.
AfterSend(kind, embed) == InCall(kind)

\* The call the goroutine is making for the current file.
CurrentCall(kind) == [batch |-> batches, file |-> fi, kind |-> kind]

\* The ingestion variables the call-level walk leaves alone.
ingestRest == <<prefixArg, ipc, meta, result, index, ingestRet, faults,
                stopped, docLog, runLog>>

InitEnrich ==
    /\ CoordIdle
    /\ ScrapeIdle
    /\ EnvIdle
    /\ BootIdle
    /\ mode \in {"ingest", "run"}
    /\ llmOn \in BOOLEAN
    /\ embedOn \in BOOLEAN
    /\ prefixArg = <<>>
    /\ ipc = "idle"
    /\ meta = {}
    /\ \E n \in 0..MaxFiles : files = FirstPages(n)
    /\ fi = 1
    /\ result = EmptyResult
    /\ index = <<>>
    /\ ingestRet = NoIngestRet
    /\ faults = 0
    /\ stopped = FALSE
    /\ docLog = <<>>
    /\ runLog = <<>>
    /\ dpc = BetweenDocuments
    /\ inflight = {}
    /\ \E t \in 1..MaxTargets : batches = t - 1
    /\ CallbacksIdle
    /\ call = NoCall

\* The context of the command is cancelled.
EnrichCtxCancel ==
    /\ ~ctxDone
    /\ dpc.at # "done"
    /\ ctxDone' = TRUE
    /\ UNCHANGED <<store, mode, llmOn, embedOn, files, fi>>
    /\ UNCHANGED <<coordVars, scrapeVars, ingestRest, bootVars, enrichVars>>
    /\ UNCHANGED callbackVars
    /\ UNCHANGED call

\* The top of the loop body: Ingest leaves the loop on a cancelled context,
\* a file that cannot be read or converted is skipped, any other goes on to
\* its model calls.
EnrichBegin ==
    /\ dpc = BetweenDocuments
    /\ fi <= Len(files)
    /\ \E ok \in BOOLEAN :
        IF mode = "ingest" /\ CtxCancelled(ctxDone)
        THEN /\ fi' = Len(files) + 1
             /\ dpc' = dpc
        ELSE IF ok
        THEN /\ fi' = fi
             /\ dpc' = AfterConvert(llmOn, embedOn)
        ELSE /\ fi' = fi + 1
             /\ dpc' = dpc
    /\ UNCHANGED <<inflight, batches>>
    /\ UNCHANGED <<mode, llmOn, embedOn, files>>
    /\ UNCHANGED <<coordVars, scrapeVars, envVars, ingestRest, bootVars>>
    /\ UNCHANGED callbackVars
    /\ UNCHANGED call

\* Complete or Embed sends its request.
EnrichSend ==
    /\ \E kind \in ModelCalls :
        /\ dpc = About(kind)
        /\ inflight' = inflight \cup {CurrentCall(kind)}
        /\ dpc' = AfterSend(kind, embedOn)
    /\ UNCHANGED batches
    /\ UNCHANGED <<mode, llmOn, embedOn, files, fi>>
    /\ UNCHANGED <<coordVars, scrapeVars, envVars, ingestRest, bootVars>>
    /\ UNCHANGED callbackVars
    /\ UNCHANGED call

\* The model runner answers, or the call fails.
EnrichAnswer ==
    /\ \E kind \in ModelCalls, ok \in BOOLEAN :
        /\ dpc = InCall(kind)
        /\ inflight' = inflight \ {CurrentCall(kind)}
        /\ dpc' = AfterAnswer(kind, ok, embedOn)
    /\ UNCHANGED batches
    /\ UNCHANGED <<mode, llmOn, embedOn, files, fi>>
    /\ UNCHANGED <<coordVars, scrapeVars, envVars, ingestRest, bootVars>>
    /\ UNCHANGED callbackVars
    /\ UNCHANGED call

\* IndexDocument, then the next iteration of the loop.
EnrichIndex ==
    /\ dpc = About("index")
    /\ fi' = fi + 1
    /\ dpc' = BetweenDocuments
    /\ UNCHANGED <<inflight, batches>>
    /\ UNCHANGED <<mode, llmOn, embedOn, files>>
    /\ UNCHANGED <<coordVars, scrapeVars, envVars, ingestRest, bootVars>>
    /\ UNCHANGED callbackVars
    /\ UNCHANGED call

\* Ingest or Run has returned and the caller's loop hands it the next batch:
\* the worker's `for event := range scrapeEvents`, the legacy `for url`.
EnrichNextBatch ==
    /\ dpc = BetweenDocuments
    /\ fi > Len(files)
    /\ batches > 0
    /\ batches' = batches - 1
    /\ \E n \in 0..MaxFiles : files' = FirstPages(n)
    /\ fi' = 1
    /\ UNCHANGED <<dpc, inflight>>
    /\ UNCHANGED <<mode, llmOn, embedOn>>
    /\ UNCHANGED <<coordVars, scrapeVars, envVars, ingestRest, bootVars>>
    /\ UNCHANGED callbackVars
    /\ UNCHANGED call

\* The last batch is done.
EnrichDone ==
    /\ dpc = BetweenDocuments
    /\ fi > Len(files)
    /\ batches = 0
    /\ dpc' = About("done")
    /\ UNCHANGED <<inflight, batches>>
    /\ UNCHANGED <<mode, llmOn, embedOn, files, fi>>
    /\ UNCHANGED <<coordVars, scrapeVars, envVars, ingestRest, bootVars>>
    /\ UNCHANGED callbackVars
    /\ UNCHANGED call

NextEnrich ==
    \/ EnrichCtxCancel
    \/ EnrichBegin
    \/ EnrichSend
    \/ EnrichAnswer
    \/ EnrichIndex
    \/ EnrichNextBatch
    \/ EnrichDone

SpecEnrich == InitEnrich /\ [][NextEnrich]_vars

\* ---------------------------------------------------- functions on their own
\* Every variable of the program parts, which the function checks leave at
\* rest.
programVars == <<coordVars, scrapeVars, envVars, ingestVars, bootVars,
                 enrichVars, callbackVars>>

ProgramIdle ==
    /\ CoordIdle
    /\ ScrapeIdle
    /\ EnvIdle
    /\ IngestIdle
    /\ BootIdle
    /\ EnrichIdle
    /\ CallbacksIdle

\* ------------------------------------------------ Search and HybridSearch

\* The index holds at most this many documents.
MaxIndexed == 3

\* The largest limit asked for.
MaxLimit == 2

\* The documents an index can hold: the terms of each text field after
\* analysis, and the embedding, 0 when the document has none.
SearchDocs ==
    {[id |-> "d1", content |-> {"go"}, title |-> {"api"}, tags |-> {},
      summary |-> {}, embedding |-> 1],
     [id |-> "d2", content |-> {}, title |-> {}, tags |-> {"go"},
      summary |-> {}, embedding |-> 0],
     [id |-> "d3", content |-> {"api"}, title |-> {}, tags |-> {"api"},
      summary |-> {"go"}, embedding |-> 3],
     [id |-> "d4", content |-> {"go"}, title |-> {"go"}, tags |-> {},
      summary |-> {}, embedding |-> 2]}

\* The fields Search matches on, with their boosts: content, title, tags^2,
\* summary.
SearchFields == [content |-> 1, title |-> 1, tags |-> 2, summary |-> 1]

\* The fields of the standard retriever of HybridSearch.
HybridFields == [content |-> 1, title |-> 1]

\* multi_match: the boosts of the fields the query term occurs in, added up.
RECURSIVE FieldScore(_, _, _, _)
FieldScore(doc, query, fields, names) ==
    IF names = {} THEN 0
    ELSE LET n == CHOOSE x \in names : TRUE
         IN (IF query \in doc[n] THEN fields[n] ELSE 0)
            + FieldScore(doc, query, fields, names \ {n})

MatchScore(doc, query, fields) ==
    FieldScore(doc, query, fields, DOMAIN fields)

\* The hits of a retriever: the positions of ix whose score is above zero,
\* best first, equal scores in index order, cut to size.
Hits(ix, score, size) ==
    LET cand == {i \in 1..Len(ix) : score[i] > 0}
        before(i) == Cardinality({j \in cand : \/ score[j] > score[i]
                                               \/ score[j] = score[i] /\ j < i})
        n == IF size < Cardinality(cand) THEN size ELSE Cardinality(cand)
    IN [k \in 1..n |-> CHOOSE i \in cand : before(i) = k - 1]

\* for i, hit := range sr.Hits.Hits { docs[i] = hit.Source }
Sources(ix, hits) == [k \in 1..Len(hits) |-> ix[hits[k]]]

\* Client.Search: one multi_match query of the given size; a failed request
\* or an error response returns no documents and the error.
Search(ix, query, limit, esOk) ==
    IF ~esOk THEN [docs |-> <<>>, err |-> "search error"]
    ELSE LET score == [i \in 1..Len(ix) |->
                          MatchScore(ix[i], query, SearchFields)]
         IN [docs |-> Sources(ix, Hits(ix, score, limit)), err |-> ""]

\* The product of the denominators 60 + rank of reciprocal rank fusion, for
\* the ranks 1 to n.
RECURSIVE RankProduct(_)
RankProduct(n) == IF n = 0 THEN 1 ELSE (60 + n) * RankProduct(n - 1)

\* The retriever query with reciprocal rank fusion of the standard retriever
\* and the knn retriever: a document scores 1 / (60 + rank) for each list it
\* is in, here multiplied by the product of all denominators.
Fused(ix, query, embedding, limit) ==
    LET lex == [i \in 1..Len(ix) |-> MatchScore(ix[i], query, HybridFields)]
        near == [i \in 1..Len(ix) |->
                    IF ix[i].embedding = 0 \/ embedding.nil THEN 0
                    ELSE IF ix[i].embedding > embedding.vector
                    THEN 10 - (ix[i].embedding - embedding.vector)
                    ELSE 10 - (embedding.vector - ix[i].embedding)]
        standard == Hits(ix, lex, Len(ix))
        knn == Hits(ix, near, limit)
        part(list, i) ==
            IF \E k \in 1..Len(list) : list[k] = i
            THEN RankProduct(Len(ix)) \div
                   (60 + CHOOSE k \in 1..Len(list) : list[k] = i)
            ELSE 0
        score == [i \in 1..Len(ix) |-> part(standard, i) + part(knn, i)]
    IN Sources(ix, Hits(ix, score, limit))

\* A HybridSearch that sends the retriever query whatever the embedding.
HybridSearch_AlwaysFused(ix, query, embedding, limit, esOk) ==
    IF ~esOk THEN [docs |-> <<>>, err |-> "hybrid search error"]
    ELSE [docs |-> Fused(ix, query, embedding, limit), err |-> ""]

\* Client.HybridSearch: Search when queryEmbedding is nil, else the retriever
\* query.
HybridSearch(ix, query, embedding, limit, esOk) ==
    IF embedding.nil THEN Search(ix, query, limit, esOk)
    ELSE IF ~esOk THEN [docs |-> <<>>, err |-> "hybrid search error"]
    ELSE [docs |-> Fused(ix, query, embedding, limit), err |-> ""]

\* The index states: the documents in any order, none twice.
Indexes ==
    UNION {{ix \in [1..n -> SearchDocs] :
               \A i, j \in 1..n : i # j => ix[i] # ix[j]} : n \in 0..MaxIndexed}

NoSearchResult == [docs |-> <<>>, err |-> "not called"]

InitSearch ==
    /\ ProgramIdle
    /\ \E ix \in Indexes, query \in {"go", "api", "rust"}, limit \in 0..MaxLimit,
          embedding \in {[nil |-> TRUE, vector |-> 0], [nil |-> FALSE, vector |-> 1],
                         [nil |-> FALSE, vector |-> 3]},
          esOk \in BOOLEAN :
        call = [fn |-> "search", index |-> ix, query |-> query,
                limit |-> limit, embedding |-> embedding, esOk |-> esOk,
                searched |-> NoSearchResult, hybrid |-> NoSearchResult]

\* Search is called with the query and limit, on the index as it is.
SearchCall ==
    /\ call.fn = "search"
    /\ call.searched = NoSearchResult
    /\ call' = [call EXCEPT !.searched =
                   Search(call.index, call.query, call.limit, call.esOk)]
    /\ UNCHANGED programVars

\* HybridSearch is called with the same query and limit, and the embedding.
HybridSearchCall ==
    /\ call.fn = "search"
    /\ call.hybrid = NoSearchResult
    /\ call' = [call EXCEPT !.hybrid =
                   HybridSearch(call.index, call.query, call.embedding,
                                call.limit, call.esOk)]
    /\ UNCHANGED programVars

NextSearch ==
    \/ SearchCall
    \/ HybridSearchCall

SpecSearch == InitSearch /\ [][NextSearch]_vars

\* --------------------------------------------------------------- Detect

\* A body has at most this many lines.
MaxLines == 3

\* The lines a body is made of.
BodyLines == {"<!DOCTYPE html>", "<HTML lang=en>", "# Title", "####### Seven",
              "- item", "See [docs](https://a.test/p1).", "Plain text.", ""}

\* looksLikeHTML on the first line: it begins, in any case of letters, with
\* <!doctype, <html, <head or <body.
StartsLikeHTML(line) == line \in {"<!DOCTYPE html>", "<HTML lang=en>"}

\* The line begins with one to six # followed by white space and text.
IsHeading(line) == line = "# Title"

\* The line begins with - or * followed by white space and text.
IsBullet(line) == line = "- item"

\* The line has a [text](target) in it.
HasLink(line) == line = "See [docs](https://a.test/p1)."

\* strings.TrimSpace on the body: the blank lines at either end go.
RECURSIVE TrimSpace(_)
TrimSpace(lines) ==
    IF lines = <<>> THEN <<>>
    ELSE IF Head(lines) = "" THEN TrimSpace(Tail(lines))
    ELSE IF lines[Len(lines)] = "" THEN TrimSpace(SubSeq(lines, 1, Len(lines) - 1))
    ELSE lines

LooksLikeHTML(trimmed) == trimmed # <<>> /\ StartsLikeHTML(trimmed[1])

\* hasMarkdownPatterns: the heading pattern is anchored at the start of the
\* content, the bullet pattern at the start of any line, the link pattern
\* nowhere.
HasMarkdownPatterns(trimmed) ==
    \/ trimmed # <<>> /\ IsHeading(trimmed[1])
    \/ \E k \in 1..Len(trimmed) : IsBullet(trimmed[k])
    \/ \E k \in 1..Len(trimmed) : HasLink(trimmed[k])

\* The body made of the given lines, as the detector and the title
\* extraction see it.
Body(lines) ==
    [of |-> "", html |-> LooksLikeHTML(TrimSpace(lines)),
     patterns |-> HasMarkdownPatterns(TrimSpace(lines)),
     h1 |-> IF \E k \in 1..Len(lines) : lines[k] = "# Title" THEN "Title" ELSE "",
     title |-> "", form |-> "raw"]

\* The bodies of up to MaxLines lines.
Bodies == UNION {[1..n -> BodyLines] : n \in 0..MaxLines}

InitDetect ==
    /\ ProgramIdle
    /\ \E url \in {"https://a.test/p1", PageFile("https://a.test/p1")},
          contentType \in {"", "text/html", "text/plain", "Text/Markdown"},
          lines \in Bodies :
        call = [fn |-> "detect", url |-> url, contentType |-> contentType,
                lines |-> lines, returned |-> FALSE, markdown |-> FALSE]

\* Detect is called on the drawn URL, content type and body.
DetectCall ==
    /\ call.fn = "detect"
    /\ ~call.returned
    /\ call' = [call EXCEPT !.returned = TRUE,
                   !.markdown = Detect(Parts(call.url), call.contentType,
                                     Body(call.lines))]
    /\ UNCHANGED programVars

NextDetect ==
    \/ DetectCall

SpecDetect == InitDetect /\ [][NextDetect]_vars

\* --------------------------- MarkdownURLVariants and the Markdown-first fetch

\* A URL has at most this many parts after scheme and host.
MaxParts == 3

\* The URLs a page can have: https://, a host, and path parts.
PathParts == {"/o/r", "/blob", "/", "README", ".md", ".MD"}

PageParts ==
    UNION {{<<"https://", host>> \o path :
               host \in {"github.com", "a.test"}, path \in [1..n -> PathParts]}
           : n \in 0..MaxParts}

\* strings.Contains(url, "github.com")
ContainsGitHub(url) == \E k \in 1..Len(url) : url[k] = "github.com"

\* The places where "/blob/" begins in the URL.
BlobAt(url) == {k \in 1..Len(url) - 1 : url[k] = "/blob" /\ url[k + 1] = "/"}

\* strings.Replace(url, "github.com", "raw.githubusercontent.com", 1)
ReplaceGitHub(url) ==
    LET first == CHOOSE k \in 1..Len(url) :
                    /\ url[k] = "github.com"
                    /\ \A j \in 1..k - 1 : url[j] # "github.com"
    IN [url EXCEPT ![first] = "raw.githubusercontent.com"]

\* strings.Replace(raw, "/blob/", "/", 1)
ReplaceBlob(url) ==
    LET first == CHOOSE k \in BlobAt(url) : \A j \in BlobAt(url) : k <= j
    IN SubSeq(url, 1, first - 1) \o SubSeq(url, first + 1, Len(url))

\* strings.TrimSuffix(url, "/")
TrimSlash(url) ==
    IF url # <<>> /\ url[Len(url)] = "/" THEN SubSeq(url, 1, Len(url) - 1)
    ELSE url

\* A MarkdownURLVariants that looks at the suffix before it looks for a
\* GitHub blob URL.
MarkdownURLVariants_SuffixFirst(url) ==
    IF IsMarkdownURL(url) THEN <<>>
    ELSE IF ContainsGitHub(url) /\ BlobAt(url) # {}
    THEN <<ReplaceBlob(ReplaceGitHub(url))>>
    ELSE <<TrimSlash(url) \o <<".md">>>>

\* markdown.MarkdownURLVariants
MarkdownURLVariants(url) ==
    IF ContainsGitHub(url) /\ BlobAt(url) # {}
    THEN <<ReplaceBlob(ReplaceGitHub(url))>>
    ELSE IF IsMarkdownURL(url) THEN <<>>
    ELSE <<TrimSlash(url) \o <<".md">>>>

\* What the page was fetched with, before any variant is tried.
OriginalContent == [lines |-> <<"<!DOCTYPE html>", "Plain text.">>,
                    contentType |-> "text/html"]

\* What the fetch of a variant can come to: no response, or a status with a
\* content type and a body.
VariantFetches ==
    [status : {0, 200, 404},
     contentType : {"text/plain", "text/markdown"},
     lines : {<<"<!DOCTYPE html>">>, <<"# Title">>, <<"Plain text.">>}]

\* A tryFetchMarkdown that does not look at the status.
TryFetchMarkdown_AnyStatus(url, fetch) ==
    /\ fetch.status # 0
    /\ Detect(url, fetch.contentType, Body(fetch.lines))

\* tryFetchMarkdown: the request succeeds, the status is 200 and Detect
\* says Markdown.
TryFetchMarkdown(url, fetch) ==
    /\ fetch.status = 200
    /\ Detect(url, fetch.contentType, Body(fetch.lines))

\* The document OnResponse appends.
ScrapedDocument(url, content) ==
    [url |-> url, lines |-> content.lines, contentType |-> content.contentType]

NoDocument == [url |-> <<>>, lines |-> <<>>, contentType |-> ""]

InitVariants ==
    /\ ProgramIdle
    /\ \E page \in PageParts, tryFirst \in BOOLEAN :
        call = [fn |-> "variants", page |-> page, tryFirst |-> tryFirst,
                pc |-> "response", variants |-> <<>>, vi |-> 1,
                ctxDone |-> FALSE, tried |-> <<>>, doc |-> NoDocument]

\* The context is cancelled while the response is handled.
VariantsCtxCancel ==
    /\ call.fn = "variants"
    /\ call.pc # "done"
    /\ ~call.ctxDone
    /\ call' = [call EXCEPT !.ctxDone = TRUE]
    /\ UNCHANGED programVars

\* OnResponse without TryMarkdownFirst: the document is what was fetched.
ResponseKeep ==
    /\ call.fn = "variants"
    /\ call.pc = "response"
    /\ ~call.tryFirst
    /\ call' = [call EXCEPT !.pc = "done",
                   !.doc = ScrapedDocument(call.page, OriginalContent)]
    /\ UNCHANGED programVars

\* OnResponse with TryMarkdownFirst calls tryMarkdownVariants, which asks
\* for the variants of the page's URL.
VariantsCall ==
    /\ call.fn = "variants"
    /\ call.pc = "response"
    /\ call.tryFirst
    /\ call' = [call EXCEPT !.pc = "try",
                   !.variants = MarkdownURLVariants(call.page)]
    /\ UNCHANGED programVars

\* One turn of the loop over the variants: a cancelled context ends it with
\* nothing; else the variant is fetched and, when tryFetchMarkdown takes it,
\* its content and content type replace those of the page.
TryVariant ==
    /\ call.fn = "variants"
    /\ call.pc = "try"
    /\ call.vi <= Len(call.variants)
    /\ IF call.ctxDone
       THEN call' = [call EXCEPT !.pc = "done",
                        !.doc = ScrapedDocument(call.page, OriginalContent)]
       ELSE \E fetch \in VariantFetches :
            LET variant == call.variants[call.vi]
                tried == Append(call.tried, [url |-> variant, fetch |-> fetch])
            IN IF TryFetchMarkdown(variant, fetch)
               THEN call' = [call EXCEPT !.pc = "done", !.tried = tried,
                                !.doc = ScrapedDocument(call.page, fetch)]
               ELSE call' = [call EXCEPT !.vi = call.vi + 1, !.tried = tried]
    /\ UNCHANGED programVars

\* No variant is left: the document is what was fetched.
VariantsExhausted ==
    /\ call.fn = "variants"
    /\ call.pc = "try"
    /\ call.vi > Len(call.variants)
    /\ call' = [call EXCEPT !.pc = "done",
                   !.doc = ScrapedDocument(call.page, OriginalContent)]
    /\ UNCHANGED programVars

NextVariants ==
    \/ VariantsCtxCancel
    \/ ResponseKeep
    \/ VariantsCall
    \/ TryVariant
    \/ VariantsExhausted

SpecVariants == InitVariants /\ [][NextVariants]_vars

\* ------------------------------------------- the width of the embeddings

\* "dims" of the embedding field in indexMapping.
IndexDims == 2560

\* The embedding models the configuration can name: the three the client
\* knows, and one it does not.
EmbeddingModels == {"ai/embeddinggemma", "ai/snowflake-arctic-embed",
                    "ai/qwen3-embedding", "ai/other"}

\* embeddings.Dimensions: the width of the vectors of a model.
Dimensions(model) ==
    CASE model = "ai/embeddinggemma" -> 768
      [] model = "ai/snowflake-arctic-embed" -> 1024
      [] model = "ai/qwen3-embedding" -> 2560
      [] OTHER -> 768

InitWidth ==
    /\ ProgramIdle
    /\ \E model \in EmbeddingModels, n \in 1..MaxFiles :
        call = [fn |-> "width", model |-> model, pages |-> FirstPages(n),
                pc |-> "create", declared |-> 0, next |-> 1,
                embedding |-> 0, submitted |-> <<>>, indexed |-> <<>>]

\* CreateIndex: the index is created with indexMapping.
WidthCreateIndex ==
    /\ call.fn = "width"
    /\ call.pc = "create"
    /\ call' = [call EXCEPT !.pc = "embed", !.declared = IndexDims]
    /\ UNCHANGED programVars

\* Embed on the next document: the vector the configured model returns, as
\* wide as the model makes it, or no vector when the call fails.
WidthEmbed ==
    /\ call.fn = "width"
    /\ call.pc = "embed"
    /\ call.next <= Len(call.pages)
    /\ \E ok \in BOOLEAN :
        call' = [call EXCEPT !.pc = "index",
                    !.embedding = IF ok THEN Dimensions(call.model) ELSE 0]
    /\ UNCHANGED programVars

\* IndexDocument: the document is submitted with its embedding; the index
\* takes a document without embedding, or with one of the declared width.
WidthIndexDocument ==
    /\ call.fn = "width"
    /\ call.pc = "index"
    /\ LET doc == [url |-> call.pages[call.next], width |-> call.embedding]
       IN call' = [call EXCEPT !.pc = "embed", !.next = call.next + 1,
                      !.submitted = Append(call.submitted, doc),
                      !.indexed = IF doc.width \in {0, call.declared}
                                  THEN Append(call.indexed, doc)
                                  ELSE call.indexed]
    /\ UNCHANGED programVars

NextWidth ==
    \/ WidthCreateIndex
    \/ WidthEmbed
    \/ WidthIndexDocument

SpecWidth == InitWidth /\ [][NextWidth]_vars

\* ------------------------------------------------------- runScrapeWithIngest

\* Start URLs a caller may list; the same URL may be listed twice.
StartURLs == {"https://a.test/docs", "https://b.test/"}

\* The prefix of the crawl run of target i. ScrapeToS3 builds it from the
\* host, the UTC second and a hash of the URL and the nanosecond clock, so
\* each run gets its own; the target's index stands for that discriminator.
RunPrefix(i) == i

\* events.ScrapeCompleteEvent as the producer fills it in.
ScrapeCompleteEvent(i, n) == [prefix |-> RunPrefix(i), pageCount |-> n]

InitCoord ==
    /\ urls \in UNION {[1..n -> StartURLs] : n \in 0..MaxTargets}
    /\ ppc = "loop"
    /\ idx = 1
    /\ pending = NoEvent
    /\ totalPages = 0
    /\ chan = <<>>
    /\ closed = FALSE
    /\ doneClosed = FALSE
    /\ cpc = "recv"
    /\ event = NoEvent
    /\ totalDocsIndexed = 0
    /\ reported = NoReport
    /\ attempted = {}
    /\ scraped = <<>>
    /\ received = <<>>
    /\ ingestLog = <<>>
    /\ ingestSum = 0
    /\ ScrapeIdle
    /\ EnvIdle
    /\ IngestIdle
    /\ BootIdle
    /\ EnrichIdle
    /\ CallbacksIdle
    /\ call = NoCall

\* for _, url := range urls { ... s.ScrapeToS3(ctx, url, storageClient)
ProducerScrapeCall ==
    /\ ppc = "loop"
    /\ idx <= Len(urls)
    /\ ppc' = "scrape"
    /\ UNCHANGED <<urls, idx, pending, totalPages, chan, closed, doneClosed,
                   cpc, event, totalDocsIndexed, reported, attempted, scraped,
                   received, ingestLog, ingestSum>>
    /\ UNCHANGED <<scrapeVars, envVars, ingestVars>>
    /\ UNCHANGED bootVars
    /\ UNCHANGED enrichVars
    /\ UNCHANGED callbackVars
    /\ UNCHANGED call

\* The mutant of ProducerScrapeError: the failed target is announced like a
\* scraped one, with an event of zero pages.
ProducerScrapeError_SendsEvent ==
    /\ ppc = "scrape"
    /\ attempted' = attempted \cup {idx}
    /\ pending' = ScrapeCompleteEvent(idx, 0)
    /\ ppc' = "send"
    /\ UNCHANGED <<urls, idx, totalPages, chan, closed, doneClosed, cpc,
                   event, totalDocsIndexed, reported, scraped, received,
                   ingestLog, ingestSum>>
    /\ UNCHANGED <<scrapeVars, envVars, ingestVars>>
    /\ UNCHANGED bootVars
    /\ UNCHANGED enrichVars
    /\ UNCHANGED callbackVars
    /\ UNCHANGED call

\* ScrapeToS3 returned an error: print it and continue with the next target.
ProducerScrapeError ==
    /\ ppc = "scrape"
    /\ attempted' = attempted \cup {idx}
    /\ idx' = idx + 1
    /\ ppc' = "loop"
    /\ UNCHANGED <<urls, pending, totalPages, chan, closed, doneClosed, cpc,
                   event, totalDocsIndexed, reported, scraped, received,
                   ingestLog, ingestSum>>
    /\ UNCHANGED <<scrapeVars, envVars, ingestVars>>
    /\ UNCHANGED bootVars
    /\ UNCHANGED enrichVars
    /\ UNCHANGED callbackVars
    /\ UNCHANGED call

\* ScrapeToS3 returned a result of n pages: add to totalPages, build the event.
ProducerScrapeOk ==
    /\ ppc = "scrape"
    /\ \E n \in 0..MaxPages :
        /\ totalPages' = totalPages + n
        /\ pending' = ScrapeCompleteEvent(idx, n)
    /\ attempted' = attempted \cup {idx}
    /\ scraped' = Append(scraped, RunPrefix(idx))
    /\ ppc' = "send"
    /\ UNCHANGED <<urls, idx, chan, closed, doneClosed, cpc, event,
                   totalDocsIndexed, reported, received, ingestLog, ingestSum>>
    /\ UNCHANGED <<scrapeVars, envVars, ingestVars>>
    /\ UNCHANGED bootVars
    /\ UNCHANGED enrichVars
    /\ UNCHANGED callbackVars
    /\ UNCHANGED call

\* The mutant of CanSend: a channel created with a buffer of one event.
CanSend_Buffered(workerPc, buffer) == Len(buffer) < 1

\* When scrapeEvents <- ev can complete: on an unbuffered channel only with
\* the receiver parked in its receive, else while the buffer has room.
CanSend(workerPc, buffer) ==
    IF ChanCap = 0 THEN workerPc = "recv" /\ buffer = <<>>
                   ELSE Len(buffer) < ChanCap

\* scrapeEvents <- events.ScrapeCompleteEvent{...}: the value goes straight
\* to a parked receiver, which becomes runnable holding it; else to the buffer.
ProducerSend ==
    /\ ppc = "send"
    /\ CanSend(cpc, chan)
    /\ IF cpc = "recv" /\ chan = <<>>
       THEN /\ event' = pending
            /\ cpc' = "got"
            /\ received' = Append(received, pending.prefix)
            /\ chan' = chan
       ELSE /\ chan' = Append(chan, pending)
            /\ UNCHANGED <<event, cpc, received>>
    /\ pending' = NoEvent
    /\ idx' = idx + 1
    /\ ppc' = "loop"
    /\ UNCHANGED <<urls, totalPages, closed, doneClosed, totalDocsIndexed,
                   reported, attempted, scraped, ingestLog, ingestSum>>
    /\ UNCHANGED <<scrapeVars, envVars, ingestVars>>
    /\ UNCHANGED bootVars
    /\ UNCHANGED enrichVars
    /\ UNCHANGED callbackVars
    /\ UNCHANGED call

\* The mutant of ProducerClose: the channel is closed after the first target.
ProducerClose_Early ==
    /\ ppc = "loop"
    /\ idx > 1
    /\ closed' = TRUE
    /\ ppc' = "wait"
    /\ UNCHANGED <<urls, idx, pending, totalPages, chan, doneClosed, cpc,
                   event, totalDocsIndexed, reported, attempted, scraped,
                   received, ingestLog, ingestSum>>
    /\ UNCHANGED <<scrapeVars, envVars, ingestVars>>
    /\ UNCHANGED bootVars
    /\ UNCHANGED enrichVars
    /\ UNCHANGED callbackVars
    /\ UNCHANGED call

\* The range loop is over: close(scrapeEvents).
ProducerClose ==
    /\ ppc = "loop"
    /\ idx > Len(urls)
    /\ closed' = TRUE
    /\ ppc' = "wait"
    /\ UNCHANGED <<urls, idx, pending, totalPages, chan, doneClosed, cpc,
                   event, totalDocsIndexed, reported, attempted, scraped,
                   received, ingestLog, ingestSum>>
    /\ UNCHANGED <<scrapeVars, envVars, ingestVars>>
    /\ UNCHANGED bootVars
    /\ UNCHANGED enrichVars
    /\ UNCHANGED callbackVars
    /\ UNCHANGED call

\* <-done, then the Printf of the totals and return nil.
ProducerReport ==
    /\ ppc = "wait"
    /\ doneClosed
    /\ reported' = [printed |-> TRUE, pages |-> totalPages,
                    docs |-> totalDocsIndexed]
    /\ ppc' = "returned"
    /\ UNCHANGED <<urls, idx, pending, totalPages, chan, closed, doneClosed,
                   cpc, event, totalDocsIndexed, attempted, scraped, received,
                   ingestLog, ingestSum>>
    /\ UNCHANGED <<scrapeVars, envVars, ingestVars>>
    /\ UNCHANGED bootVars
    /\ UNCHANGED enrichVars
    /\ UNCHANGED callbackVars
    /\ UNCHANGED call

\* A worker whose range loop does not see the channel closed.
WorkerRange_NeverEnds ==
    /\ cpc = "recv"
    /\ chan # <<>>
    /\ event' = Head(chan)
    /\ chan' = Tail(chan)
    /\ received' = Append(received, Head(chan).prefix)
    /\ cpc' = "got"
    /\ UNCHANGED <<urls, ppc, idx, pending, totalPages, closed, doneClosed,
                   totalDocsIndexed, reported, attempted, scraped, ingestLog,
                   ingestSum>>
    /\ UNCHANGED <<scrapeVars, envVars, ingestVars, bootVars, enrichVars,
                   callbackVars, call>>

\* for event := range scrapeEvents, with nothing handed over directly: take
\* the buffer's head, or leave the loop on a closed and drained channel
\* (defer close(done)).
WorkerRange ==
    /\ cpc = "recv"
    /\ chan # <<>> \/ closed
    /\ IF chan # <<>>
       THEN /\ event' = Head(chan)
            /\ chan' = Tail(chan)
            /\ received' = Append(received, Head(chan).prefix)
            /\ cpc' = "got"
            /\ UNCHANGED doneClosed
       ELSE /\ cpc' = "done"
            /\ doneClosed' = TRUE
            /\ UNCHANGED <<event, chan, received>>
    /\ UNCHANGED <<urls, ppc, idx, pending, totalPages, closed,
                   totalDocsIndexed, reported, attempted, scraped, ingestLog,
                   ingestSum>>
    /\ UNCHANGED <<scrapeVars, envVars, ingestVars>>
    /\ UNCHANGED bootVars
    /\ UNCHANGED enrichVars
    /\ UNCHANGED callbackVars
    /\ UNCHANGED call

\* The mutant of WorkerIngestCall: go engine.Ingest(...), the loop does not
\* wait for the call.
WorkerIngestCall_Async ==
    /\ cpc = "got"
    /\ ingestLog' = Append(ingestLog, <<"start", event.prefix>>)
    /\ cpc' = "recv"
    /\ UNCHANGED <<urls, ppc, idx, pending, totalPages, chan, closed,
                   doneClosed, event, totalDocsIndexed, reported, attempted,
                   scraped, received, ingestSum>>
    /\ UNCHANGED <<scrapeVars, envVars, ingestVars>>
    /\ UNCHANGED bootVars
    /\ UNCHANGED enrichVars
    /\ UNCHANGED callbackVars
    /\ UNCHANGED call

\* result, err := engine.Ingest(ctx, event.Prefix): the call.
WorkerIngestCall ==
    /\ cpc = "got"
    /\ ingestLog' = Append(ingestLog, <<"start", event.prefix>>)
    /\ cpc' = "ingest"
    /\ UNCHANGED <<urls, ppc, idx, pending, totalPages, chan, closed,
                   doneClosed, event, totalDocsIndexed, reported, attempted,
                   scraped, received, ingestSum>>
    /\ UNCHANGED <<scrapeVars, envVars, ingestVars>>
    /\ UNCHANGED bootVars
    /\ UNCHANGED enrichVars
    /\ UNCHANGED callbackVars
    /\ UNCHANGED call

\* The mutant of WorkerIngestError: the failed event is ingested again.
WorkerIngestError_Retry ==
    /\ cpc = "ingest"
    /\ ingestLog' = Append(ingestLog, <<"end", event.prefix>>)
    /\ cpc' = "got"
    /\ UNCHANGED <<urls, ppc, idx, pending, totalPages, chan, closed,
                   doneClosed, event, totalDocsIndexed, reported, attempted,
                   scraped, received, ingestSum>>
    /\ UNCHANGED <<scrapeVars, envVars, ingestVars>>
    /\ UNCHANGED bootVars
    /\ UNCHANGED enrichVars
    /\ UNCHANGED callbackVars
    /\ UNCHANGED call

\* The mutant of WorkerIngestError: the worker returns on the first error,
\* its deferred close(done) runs and nothing receives any more.
WorkerIngestError_Stops ==
    /\ cpc = "ingest"
    /\ ingestLog' = Append(ingestLog, <<"end", event.prefix>>)
    /\ cpc' = "done"
    /\ doneClosed' = TRUE
    /\ UNCHANGED <<urls, ppc, idx, pending, totalPages, chan, closed,
                   event, totalDocsIndexed, reported, attempted,
                   scraped, received, ingestSum>>
    /\ UNCHANGED <<scrapeVars, envVars, ingestVars>>
    /\ UNCHANGED bootVars
    /\ UNCHANGED enrichVars
    /\ UNCHANGED callbackVars
    /\ UNCHANGED call

\* Ingest returned an error: print it and continue with the next event.
WorkerIngestError ==
    /\ cpc = "ingest"
    /\ ingestLog' = Append(ingestLog, <<"end", event.prefix>>)
    /\ cpc' = "recv"
    /\ UNCHANGED <<urls, ppc, idx, pending, totalPages, chan, closed,
                   doneClosed, event, totalDocsIndexed, reported, attempted,
                   scraped, received, ingestSum>>
    /\ UNCHANGED <<scrapeVars, envVars, ingestVars>>
    /\ UNCHANGED bootVars
    /\ UNCHANGED enrichVars
    /\ UNCHANGED callbackVars
    /\ UNCHANGED call

\* Ingest returned a result: totalDocsIndexed += result.DocsIndexed. A run
\* indexes at most one document per stored page file.
WorkerIngestOk ==
    /\ cpc = "ingest"
    /\ \E d \in 0..event.pageCount :
        /\ totalDocsIndexed' = totalDocsIndexed + d
        /\ ingestSum' = ingestSum + d
    /\ ingestLog' = Append(ingestLog, <<"end", event.prefix>>)
    /\ cpc' = "recv"
    /\ UNCHANGED <<urls, ppc, idx, pending, totalPages, chan, closed,
                   doneClosed, event, reported, attempted, scraped, received>>
    /\ UNCHANGED <<scrapeVars, envVars, ingestVars>>
    /\ UNCHANGED bootVars
    /\ UNCHANGED enrichVars
    /\ UNCHANGED callbackVars
    /\ UNCHANGED call

NextCoord ==
    \/ ProducerScrapeCall
    \/ ProducerScrapeError
    \/ ProducerScrapeOk
    \/ ProducerSend
    \/ ProducerClose
    \/ ProducerReport
    \/ WorkerRange
    \/ WorkerIngestCall
    \/ WorkerIngestError
    \/ WorkerIngestOk

SpecCoord == InitCoord /\ [][NextCoord]_vars

\* The producer: the body of runScrapeWithIngest after the worker is started.
Producer ==
    \/ ProducerScrapeCall
    \/ ProducerScrapeError
    \/ ProducerScrapeOk
    \/ ProducerSend
    \/ ProducerClose
    \/ ProducerReport

\* The ingestion worker: the goroutine started by runScrapeWithIngest.
Worker ==
    \/ WorkerRange
    \/ WorkerIngestCall
    \/ WorkerIngestError
    \/ WorkerIngestOk

\* The coordinator when each goroutine that can run does run, and every call
\* of ScrapeToS3 and of Ingest returns.
SpecCoordLive ==
    /\ SpecCoord
    /\ WF_vars(Producer)
    /\ WF_vars(Worker)

\* ------------------------------------------------------------------ claims

\* Prefixes of the events whose send has completed, in send order.
Sent == received \o [k \in 1..Len(chan) |-> chan[k].prefix]

\* How many Ingest calls were started for prefix p.
StartsOf(p) ==
    Cardinality({k \in DOMAIN ingestLog : ingestLog[k] = <<"start", p>>})

\* Whether an Ingest call for prefix p has returned.
IngestEnded(p) == \E k \in DOMAIN ingestLog : ingestLog[k] = <<"end", p>>

\* The prefixes of the started Ingest calls, in start order.
StartSeq ==
    LET starts == SelectSeq(ingestLog, LAMBDA e : e[1] = "start")
    IN [k \in 1..Len(starts) |-> starts[k][2]]

\* Completed crawl runs whose event the worker has not received yet.
Waiting == Len(scraped) - Len(received)

\* C1: the event channel is closed only after every target of the URL list
\* was attempted and every successful run's event was sent; the totals are
\* reported only after the worker received every sent event, finished the
\* Ingest call of each and closed done, and the reported docs are the sum the
\* finished calls returned.
C1_CloseAfterDispatchReportAfterDrain ==
    /\ closed =>
        /\ attempted = 1..Len(urls)
        /\ pending = NoEvent
        /\ Sent = scraped
    /\ reported.printed =>
        /\ closed /\ doneClosed /\ cpc = "done"
        /\ received = scraped
        /\ \A k \in DOMAIN received : IngestEnded(received[k])
        /\ reported.docs = ingestSum
        /\ reported.pages = totalPages

\* C1 witness: the totals were reported after at least two events went through.
C1_Witness == reported.printed /\ Len(received) >= 2

\* C2: Ingest is invoked at most once per prefix and only for a prefix whose
\* event was sent, and whenever the worker is back at its receive (or has
\* left the loop) every sent event has had its Ingest call: none is dropped,
\* none is ingested twice.
C2_EachSentEventIngestedOnce ==
    /\ \A i \in 1..Len(urls) :
        /\ StartsOf(RunPrefix(i)) <= 1
        /\ StartsOf(RunPrefix(i)) = 1 =>
               \E k \in DOMAIN Sent : Sent[k] = RunPrefix(i)
    /\ \A j, k \in DOMAIN Sent : Sent[j] = Sent[k] => j = k
    /\ (cpc \in {"recv", "done"} /\ chan = <<>>) =>
           \A k \in DOMAIN Sent :
               StartsOf(Sent[k]) = 1 /\ IngestEnded(Sent[k])

\* C2 witness: the worker has left its loop after at least two events.
C2_Witness == cpc = "done" /\ Len(received) >= 2 /\ Len(ingestLog) >= 4

\* C3: Ingest calls start in the order the runs were dispatched, and each
\* call returns before the next one starts (the log alternates start, end).
C3_IngestInDispatchOrder ==
    /\ StartSeq = SubSeq(scraped, 1, Len(StartSeq))
    /\ \A k \in DOMAIN ingestLog :
        IF k % 2 = 1
        THEN ingestLog[k][1] = "start"
        ELSE ingestLog[k] = <<"end", ingestLog[k - 1][2]>>

\* C3 witness: two Ingest calls have run to their end.
C3_Witness == Len(ingestLog) >= 4 /\ cpc = "recv"

\* C4: the channel holds no event; at most one completed crawl run waits to be
\* handed to the worker, and it waits with the producer blocked in its send:
\* the producer is never crawling while an earlier event is unaccepted.
C4_UnbufferedBackpressure ==
    /\ Len(chan) = 0
    /\ Waiting \in {0, 1}
    /\ Waiting = 1 => ppc = "send"
    /\ ppc = "scrape" => Waiting = 0

\* C4 witness: the producer is blocked in its send while the worker ingests.
C4_Witness == ppc = "send" /\ cpc = "ingest" /\ Waiting = 1

\* Whether every store write attempted so far succeeded.
StoreWritesOk == \A k \in DOMAIN storeLog : storeLog[k].ok

\* Whether the crawl failed to begin: the start URL does not parse, or the
\* start page is unreachable.
CrawlFailedToBegin ==
    \/ ~Parseable(startURL)
    \/ (requests # <<>> /\ requests[1].outcome = "unreachable")

\* C5: every manifest in the store has page_count equal to the number of its
\* pages and lists only URLs whose page file {hash(url)}.md is stored under
\* its prefix; the manifest write is the last store write of the run and
\* comes when a write was attempted for every document of the run.
C5_ManifestLastAndComplete ==
    /\ \A m \in store.manifests :
        /\ m.pageCount = Len(m.pages)
        /\ \A k \in DOMAIN m.pages :
               <<m.prefix, PageFile(m.pages[k])>> \in store.pages
    /\ \A k \in DOMAIN storeLog :
        storeLog[k].op = "meta" =>
            /\ k = Len(storeLog)
            /\ k - 1 = Len(scrapeRet.docs)
            /\ \A j \in 1..(k - 1) : storeLog[j].op = "page"

\* C5 witness: a manifest of two pages, written after a page write failed.
C5_Witness ==
    /\ \E m \in store.manifests : Len(m.pages) >= 2
    /\ \E k \in DOMAIN storeLog : ~storeLog[k].ok

\* C9: every request was issued with the context found alive; from the
\* moment OnRequest sees the cancellation no request is issued and no page
\* is lost; Scrape then returns all the pages collected and ctx.Err().
C9_CancelStopsRequestsKeepsPages ==
    /\ \A k \in DOMAIN requests : ~requests[k].ctxDone
    /\ cancelled =>
        /\ Len(atCancel) = 1
        /\ requests = atCancel[1].requests
        /\ docs = atCancel[1].docs
    /\ (scrapeRet.returned /\ cancelled) =>
        /\ scrapeRet.err = "ctx"
        /\ scrapeRet.docs = atCancel[1].docs
    /\ (scrapeRet.returned /\ scrapeRet.err = "ctx") => cancelled

\* C9 witness: a crawl following links, cancelled after its first page, has
\* returned that page with the cancellation error.
C9_Witness ==
    /\ scrapeRet.returned
    /\ scrapeRet.err = "ctx"
    /\ Len(scrapeRet.docs) >= 1
    /\ cfg.followLinks

Range(seq) == {seq[k] : k \in 1..Len(seq)}

\* C6: running Ingest twice on the same stored prefix, the store unchanged
\* and every call succeeding, is idempotent: the later run reports the same
\* DocsIndexed as the earlier one, and the index holds the same document
\* ids after it, each once.
C6_ReingestIdempotent ==
    \A i, j \in 1..Len(runLog) :
        (i < j /\ runLog[i].clean /\ runLog[j].clean) =>
            /\ runLog[j].docsIndexed = runLog[i].docsIndexed
            /\ Range(runLog[j].ids) = Range(runLog[i].ids)
            /\ Len(runLog[j].ids) = Cardinality(Range(runLog[j].ids))
            /\ Len(runLog[j].ids) = Len(runLog[i].ids)

\* Two runs with every call succeeding have returned, the first having
\* indexed at least two documents.
C6_Witness ==
    /\ mode = "ingest"
    /\ Len(runLog) >= 2
    /\ runLog[1].clean
    /\ runLog[2].clean
    /\ runLog[1].docsIndexed >= 2
    /\ runLog[2].docsIndexed >= 2

\* The tags call or the summary call of the document failed.
TagsOrSummaryFailed(e) ==
    \/ e.made.tags /\ ~e.o.tags
    \/ e.made.summary /\ ~e.o.summary

\* The embedding call of the document failed.
EmbedFailed(e) == e.made.embed /\ ~e.o.embed

\* C7: in Ingest and in Pipeline.Run, a document whose tag/summary call or
\* embedding call fails is still submitted to the index with its content,
\* the failure adds no entry to the result's errors, and every later
\* document of the batch is still processed.
C7_EnrichmentFailureStillIndexes ==
    /\ \A k \in 1..Len(docLog) :
        LET e == docLog[k]
        IN (TagsOrSummaryFailed(e) \/ EmbedFailed(e)) =>
            /\ e.submitted
            /\ e.doc.id = GenerateDocumentID(e.url)
            /\ e.doc.content.of = e.url
            /\ e.errors = IF e.o.index THEN <<>> ELSE <<"index">>
            /\ e.indexed => \E n \in 1..Len(index) : index[n] = e.doc
    /\ ipc = "loop" => Len(docLog) = fi - 1
    /\ (ingestRet.returned /\ ~ingestRet.err /\ ~stopped) =>
            Len(docLog) = Len(files)

\* A run has returned in which an enrichment call of one document failed,
\* and that document and a later one were indexed.
C7_Witness ==
    /\ ingestRet.returned
    /\ ~ingestRet.err
    /\ result.errors = <<>>
    /\ result.docsIndexed = Len(files)
    /\ \E k, j \in 1..Len(docLog) :
        /\ k < j
        /\ TagsOrSummaryFailed(docLog[k]) \/ EmbedFailed(docLog[k])
        /\ docLog[k].indexed
        /\ docLog[j].indexed

\* C8: the indexed document is missing only the fields whose own model call
\* failed: tags, summary and embedding are each present whenever the call
\* that produces them succeeded, whatever became of the other calls.
C8_OnlyFailedFieldsMissing ==
    \A k \in 1..Len(docLog) :
        LET e == docLog[k]
        IN e.indexed =>
            /\ (e.made.tags /\ e.o.tags) =>
                    e.doc.tags = ParseTags(TagsResponse(e.url))
            /\ (e.made.summary /\ e.o.summary) =>
                    e.doc.summary = SummaryResponse(e.url)
            /\ (e.made.embed /\ e.o.embed) =>
                    e.doc.embedding = EmbedResponse(e.url)

\* How many documents of the current run IndexDocument has accepted.
IndexedCount == Cardinality({k \in 1..Len(docLog) : docLog[k].indexed})

\* C11: Ingest checks for cancellation before each stored file: no file is
\* read, enriched or indexed in a turn that starts with the context
\* cancelled, the run stopped by cancellation leaves the remaining files
\* untouched, and the documents indexed before are in the index and counted
\* in the DocsIndexed it returns.
C11_CancelStopsBatchKeepsIndexed ==
    /\ [][(mode = "ingest" /\ ctxDone) =>
            (docLog' = docLog \/ docLog' = <<>>) /\ index' = index]_vars
    /\ [](stopped =>
            /\ ingestRet.returned
            /\ ~ingestRet.err
            /\ Len(docLog) = fi - 1
            /\ result.docsIndexed = IndexedCount
            /\ runLog[Len(runLog)].docsIndexed = IndexedCount
            /\ \A k \in 1..Len(docLog) :
                docLog[k].indexed =>
                    \E n \in 1..Len(index) : index[n] = docLog[k].doc)

\* A run was stopped by cancellation after a document was indexed and with
\* files left.
C11_Witness ==
    /\ stopped
    /\ result.docsIndexed >= 1
    /\ fi <= Len(files)
    /\ Len(index) >= 1

DocumentFailed(e) ==
    \/ e.made.get /\ ~e.o.get
    \/ e.made.conv /\ ~e.o.conv
    \/ e.made.index /\ ~e.o.index

\* C13: in Ingest a failed storage read, conversion or index write adds one
\* entry to the result's errors, the document is not counted and the loop
\* goes on; so in a run past its setup and not cancelled, DocsIndexed plus
\* the number of errors is the number of files gone through, all the listed
\* files once the run has returned, and DocsIndexed is the number of
\* successful index writes.
C13_IndexedPlusErrorsIsFiles ==
    mode = "ingest" =>
        /\ \A k \in 1..Len(docLog) :
            /\ DocumentFailed(docLog[k]) =>
                    Len(docLog[k].errors) = 1 /\ ~docLog[k].indexed
            /\ ~DocumentFailed(docLog[k]) =>
                    docLog[k].errors = <<>> /\ docLog[k].indexed
        /\ (ipc = "loop" /\ ~stopped) =>
            /\ result.docsIndexed + Len(result.errors) = fi - 1
            /\ result.docsIndexed = IndexedCount
        /\ (ingestRet.returned /\ ~ingestRet.err /\ ~stopped) =>
            /\ result.docsIndexed + Len(result.errors) = Len(files)
            /\ result.docsIndexed = IndexedCount

\* A run over at least two files has returned with one document failed and
\* a later one indexed.
C13_Witness ==
    /\ mode = "ingest"
    /\ ingestRet.returned
    /\ ~ingestRet.err
    /\ ~stopped
    /\ \E k, j \in 1..Len(docLog) :
        k < j /\ DocumentFailed(docLog[k]) /\ docLog[j].indexed

\* The positions of the setup calls: CreateIndex, GetMetadata,
\* ListMarkdownFiles.
SetupPositions == {"start", "meta", "list"}

\* C14: a failure of CreateIndex, GetMetadata or ListMarkdownFiles ends the
\* ingestion run there: the run returns an error to its caller, no document
\* of the run is read or indexed, and the index is as it was.
C14_SetupFailureAbortsRun ==
    /\ [][(ipc \in SetupPositions /\ ipc' = "returned") =>
            /\ ingestRet'.returned
            /\ ingestRet'.err
            /\ index' = index
            /\ docLog' = <<>>
            /\ result'.docsIndexed = 0]_vars
    /\ [](ingestRet.err =>
            /\ ipc = "returned"
            /\ docLog = <<>>
            /\ result = EmptyResult
            /\ runLog[Len(runLog)].err)

\* A second run on the prefix failed in its setup after a first run indexed
\* documents, which are still in the index.
C14_Witness ==
    /\ mode = "ingest"
    /\ ingestRet.returned
    /\ ingestRet.err
    /\ Len(runLog) = 2
    /\ runLog[1].docsIndexed >= 1
    /\ Len(index) = runLog[1].docsIndexed

\* Whether the configuration has one of the errors: storage without an
\* endpoint or a bucket, embeddings or LLM enabled without a socket path or
\* a model.
ConfigError(c) ==
    \/ StorageNew(c) # ""
    \/ c.embeddings.enabled /\ EmbeddingsNew(c.embeddings) # ""
    \/ c.llm.enabled /\ LLMNew(c.llm) # ""

\* C15: with a configuration error the event-driven scrape run with
\* ingestion fails before any work starts: the targets are never reached and
\* the run has written nothing to the object store, the bucket included.
C15_ConfigErrorBeforeAnyWork ==
    (flow = "event" /\ ~conf.noIngest /\ ConfigError(conf)) =>
        /\ bpc # "work"
        /\ ~bucketMade

\* The URLs the model generates ids for.
IDedURLs == PageURLs \cup {BadURL}

\* C16: a document's id is a function of its URL alone, distinct for the
\* distinct URLs of the site, and IndexDocument is an upsert keyed by it: the
\* index holds at most one document per URL, and indexing a URL that is in
\* the index replaces its document and adds none.
C16_OneDocumentPerURL ==
    /\ [](/\ \A u, v \in IDedURLs :
                u # v => GenerateDocumentID(u) # GenerateDocumentID(v)
          /\ \A k \in 1..Len(index) :
                index[k].id = GenerateDocumentID(index[k].url)
          /\ \A i, j \in 1..Len(index) :
                index[i].url = index[j].url => i = j)
    /\ [][(Len(docLog') = Len(docLog) + 1 /\ docLog'[Len(docLog')].indexed) =>
            LET new == docLog'[Len(docLog')].doc
            IN /\ \E n \in 1..Len(index') : index'[n] = new
               /\ IF \E n \in 1..Len(index) : index[n].url = new.url
                  THEN Len(index') = Len(index)
                  ELSE Len(index') = Len(index) + 1]_vars

\* A second run over the prefix has indexed a document again, and the index
\* is as long as after the first run.
C16_Witness ==
    /\ mode = "ingest"
    /\ Len(runLog) = 1
    /\ runLog[1].docsIndexed >= 2
    /\ Len(docLog) >= 1
    /\ docLog[Len(docLog)].indexed
    /\ Len(index) = runLog[1].docsIndexed

\* The manifest stored under the prefix that is ingested.
StoredManifest == CHOOSE m \in store.manifests : m.prefix = prefixArg

\* C17: re-ingesting a prefix written by ScrapeToS3 issues no crawl request;
\* every document it builds has the URL of the manifest whose hash names the
\* stored file and the id that is the file's name without ".md"; and a run
\* in which every call succeeds indexes one document per stored page.
C17_ReingestRecoversURLs ==
    (mode = "ingest" /\ ipc \in {"loop", "returned"} /\ ~ingestRet.err) =>
        /\ requests = <<>>
        /\ spc = "idle"
        /\ \A k \in 1..Len(docLog) :
            /\ \E n \in 1..Len(StoredManifest.pages) :
                    docLog[k].url = StoredManifest.pages[n]
            /\ docLog[k].doc.url = docLog[k].url
            /\ PageFile(docLog[k].url) = files[k]
            /\ docLog[k].doc.id \o ".md" = files[k]
        /\ (ingestRet.returned /\ runLog[Len(runLog)].clean) =>
            /\ result.docsIndexed = StoredManifest.pageCount
            /\ result.docsIndexed =
                    Cardinality({f \in store.pages : f[1] = prefixArg})
            /\ Len(index) = result.docsIndexed

\* A run with every call succeeding has returned from a prefix of at least
\* two pages.
C17_Witness ==
    /\ mode = "ingest"
    /\ ingestRet.returned
    /\ ~ingestRet.err
    /\ Len(runLog) = 1
    /\ runLog[1].clean
    /\ result.docsIndexed >= 2

\* C18: at every moment of an event-driven or direct run at most one model
\* call (tags completion, summary completion or embedding) is in flight; the
\* call in flight belongs to the document being processed and the goroutine
\* is blocked inside it, so the next call of the document and the first call
\* of the next document start only after it has returned.
C18_OneModelCallInFlight ==
    /\ Cardinality(inflight) <= 1
    /\ \A c \in inflight : c = CurrentCall(c.kind) /\ dpc = InCall(c.kind)
    /\ (dpc.at \in ModelCalls /\ ~dpc.waiting) => inflight = {}
    /\ dpc = BetweenDocuments => inflight = {}

\* The embedding of the second document of a later batch is in flight, the
\* document's two completions having returned.
C18_Witness ==
    /\ llmOn
    /\ inflight = {[batch |-> 0, file |-> 2, kind |-> "embed"]}
    /\ dpc = InCall("embed")
    /\ Len(files) >= 2

\* The accepted responses, in the order they arrived.
Accepted == SelectSeq(requests, LAMBDA r : r.outcome = "ok")

\* How many entries of the page list seq carry the URL u.
EntriesOf(seq, u) == Cardinality({k \in 1..Len(seq) : seq[k].url = u})

\* The slots inside the section the mutex guards.
InCritical == {s \in 1..Parallelism : slots[s].pc \in {"read", "write", "unlock"}}

\* C19: the statements of the response callback that touch the shared page
\* list run under the mutex, one callback at a time, and under every
\* interleaving of the callbacks the page list Scrape returns has exactly one
\* entry for each response accepted with a status below 400.
C19_NoResponseLost ==
    /\ Cardinality(InCritical) <= 1
    /\ \A s \in InCritical : mu = s
    /\ scrapeRet.returned =>
        /\ Len(scrapeRet.docs) = Len(Accepted)
        /\ \A u \in PageURLs :
            EntriesOf(scrapeRet.docs, u) = EntriesOf(Accepted, u)
        /\ \A k \in 1..Len(Accepted) : EntriesOf(scrapeRet.docs, Accepted[k].url) = 1

\* Scrape has returned three pages in an order other than that of their
\* responses: the callback of a later response took the mutex first, while
\* the callback of an earlier one was waiting for it.
C19_Witness ==
    /\ scrapeRet.returned
    /\ Len(scrapeRet.docs) = 3
    /\ Len(Accepted) = 3
    /\ \E k \in 1..3 : scrapeRet.docs[k].url # Accepted[k].url

\* The number of links followed from the start of the chain to page u.
Hops(u) == (CHOOSE k \in 1..Len(ChainPages) : ChainPages[k] = u) - 1

\* The URLs of the pages Scrape returned.
ReturnedURLs == {scrapeRet.docs[k].url : k \in 1..Len(scrapeRet.docs)}

\* Scrape has returned from a crawl of the chain with link following, every
\* request of which was answered with a page.
ChainCrawled ==
    /\ startURL = ChainURL
    /\ cfg.followLinks
    /\ scrapeRet.returned
    /\ scrapeRet.err = "nil"
    /\ ~cancelled
    /\ \A k \in 1..Len(requests) : requests[k].outcome = "ok"

\* C20 as stated: a crawl of the chain with maximum depth N returns the
\* pages within N hops of the start URL and no other.
C20_WithinNHops ==
    ChainCrawled =>
        ReturnedURLs = {ChainPages[k] : k \in {j \in 1..Len(ChainPages) :
                                                 j - 1 <= cfg.maxDepth}}

\* C20 amended: the start page has depth 1, so a crawl of the chain with
\* maximum depth N >= 1 returns the pages within N - 1 hops of the start URL,
\* each once, and no other; with N = 0 the depth is not limited and the
\* whole chain is returned.
C20_WithinDepthCountedFromOne ==
    ChainCrawled =>
        /\ ReturnedURLs = {u \in {ChainPages[k] : k \in 1..Len(ChainPages)} :
                             cfg.maxDepth = 0 \/ Hops(u) + 1 <= cfg.maxDepth}
        /\ Len(scrapeRet.docs) = Cardinality(ReturnedURLs)

\* A crawl of the chain with maximum depth 2 has returned the start page and
\* the page one hop away, the page two hops away having been refused.
C20_Witness ==
    /\ ChainCrawled
    /\ cfg.maxDepth = 2
    /\ ReturnedURLs = {ChainPages[1], ChainPages[2]}
    /\ ChainPages[3] \notin visited

\* C21: link following stays on the start URL's host: every request the
\* collector makes, and so every page Scrape returns, is on the host of the
\* start URL, a link to another host being dropped after it was made
\* absolute; without link following only the start URL is requested, and
\* Scrape returns exactly the start page when that request is answered with
\* a page.
C21_SameHostOnly ==
    /\ \A k \in 1..Len(requests) : Host(requests[k].url) = Host(startURL)
    /\ \A k \in 1..Len(docs) : Host(docs[k].url) = Host(startURL)
    /\ \A u \in visited : Host(u) = Host(startURL)
    /\ ~cfg.followLinks =>
        /\ \A k \in 1..Len(requests) : requests[k].url = startURL
        /\ Len(requests) <= 1
        /\ (scrapeRet.returned /\ Len(requests) = 1 /\ requests[1].outcome = "ok")
              => scrapeRet.docs = <<[url |-> startURL]>>

\* Scrape has returned the start page, whose links to /p1, to another host
\* and to p2 were followed on the start host only.
C21_Witness ==
    /\ cfg.followLinks
    /\ cfg.maxDepth = 0
    /\ scrapeRet.returned
    /\ \E k \in 1..Len(scrapeRet.docs) : scrapeRet.docs[k].url = "https://a.test/p2"
    /\ \E k \in 1..Len(scrapeRet.docs) : scrapeRet.docs[k].url = "https://a.test/p3"
    /\ "https://b.test/x" \notin visited

\* Both searches have been made on the drawn index.
BothSearched ==
    /\ call.fn = "search"
    /\ call.searched # NoSearchResult
    /\ call.hybrid # NoSearchResult

\* C22: HybridSearch called with no embedding returns, for every query,
\* limit and index state, the documents in the order, or the error, that
\* Search returns for the same query and limit.
C22_HybridWithoutEmbeddingIsSearch ==
    (BothSearched /\ call.embedding.nil) => call.hybrid = call.searched

\* Both searches returned, in the same order, two documents of which one
\* matches the query in its tags only, a field the retriever query of
\* HybridSearch does not look at.
C22_Witness ==
    /\ BothSearched
    /\ call.embedding.nil
    /\ call.query = "go"
    /\ Len(call.hybrid.docs) = 2
    /\ call.hybrid.docs[1].id = "d2"
    /\ call.hybrid.err = ""

\* The body does not start like an HTML document and has a heading line, a
\* bullet-list line or a link in it.
StatedHeuristic(lines) ==
    /\ ~LooksLikeHTML(TrimSpace(lines))
    /\ \E k \in 1..Len(lines) :
        IsHeading(lines[k]) \/ IsBullet(lines[k]) \/ HasLink(lines[k])

\* C23: Detect decides in a fixed order, first match wins: Markdown for a
\* Markdown content type, else Markdown for a URL ending in .md or
\* .markdown, else Markdown exactly when the body does not start like an
\* HTML document and contains a heading line, a bullet-list line or a
\* [text](target) link; otherwise HTML.
C23_DetectDecisionOrder ==
    (call.fn = "detect" /\ call.returned) =>
        call.markdown = (\/ IsMarkdownContentType(call.contentType)
                         \/ IsMarkdownURL(Parts(call.url))
                         \/ StatedHeuristic(call.lines))

\* MarkdownURLVariants has been applied to the URL of the page.
VariantsAsked == call.fn = "variants" /\ call.tryFirst /\ call.pc # "response"

\* The URL is on github.com and has a /blob/ segment.
GitHubBlobURL(url) ==
    /\ url[2] = "github.com"
    /\ \E k \in 3..Len(url) - 1 : url[k] = "/blob" /\ url[k + 1] = "/"

\* The URL with its host made raw.githubusercontent.com and its first
\* /blob/ segment made /.
RawURL(url) ==
    LET k == CHOOSE i \in 3..Len(url) - 1 :
                /\ url[i] = "/blob" /\ url[i + 1] = "/"
                /\ \A j \in 3..i - 1 : ~(url[j] = "/blob" /\ url[j + 1] = "/")
    IN <<url[1], "raw.githubusercontent.com">> \o SubSeq(url, 3, k - 1)
          \o SubSeq(url, k + 1, Len(url))

DocumentBuilt == call.fn = "variants" /\ call.pc = "done"

\* The fetches of variants that came back with status 200 and a content
\* Detect classifies as Markdown.
Qualifying ==
    {k \in 1..Len(call.tried) :
        /\ call.tried[k].fetch.status = 200
        /\ Detect(call.tried[k].url, call.tried[k].fetch.contentType,
                  Body(call.tried[k].fetch.lines))}

\* C25: with Markdown-first the variants are tried in order and the content
\* and content type of the first that is fetched with status 200 and
\* classified as Markdown replace those of the page; when none qualifies
\* (fetch error, other status, not Markdown, cancellation, no variant) the
\* fetched content and content type are kept; the URL of the document is the
\* URL of the page in both cases.
C25_FirstMarkdownVariantWins ==
    DocumentBuilt =>
        /\ call.doc.url = call.page
        /\ \A k \in 1..Len(call.tried) : call.tried[k].url = call.variants[k]
        /\ Qualifying \subseteq {Len(call.tried)}
        /\ IF Qualifying # {}
           THEN /\ call.tryFirst
                /\ call.doc.lines = call.tried[Len(call.tried)].fetch.lines
                /\ call.doc.contentType =
                      call.tried[Len(call.tried)].fetch.contentType
           ELSE /\ call.doc.lines = OriginalContent.lines
                /\ call.doc.contentType = OriginalContent.contentType

\* The variant /o/r.md of the page https://a.test/o/r came back with status
\* 200 and replaced the HTML the page was fetched with.
C25_Witness ==
    /\ DocumentBuilt
    /\ call.page = <<"https://", "a.test", "/o/r">>
    /\ Qualifying = {1}
    /\ call.doc = [url |-> call.page, lines |-> <<"# Title">>,
                   contentType |-> "text/markdown"]

\* C26: every embedding attached to a document submitted to the index is as
\* wide as the dense-vector field the index declares, for every embedding
\* model the configuration can name, the default model included.
C26_EmbeddingWidthMatchesIndex ==
    call.fn = "width" =>
        \A k \in 1..Len(call.submitted) :
            call.submitted[k].width # 0 => call.submitted[k].width = call.declared

\* C27: runScrapeWithIngest terminates without deadlock, for any targets and
\* any mix of scrape and ingest failures: every event the producer has to
\* send is received, the channel is closed, the worker signals done and the
\* function returns.
C27_CoordinatorTerminates ==
    /\ (ppc = "send") ~> (ppc # "send" /\ Len(received) = Len(scraped))
    /\ <>[](/\ ppc = "returned"
            /\ closed
            /\ doneClosed
            /\ cpc = "done"
            /\ received = scraped
            /\ attempted = 1..Len(urls))

\* The function has returned from a run of three targets of which one
\* failed to scrape and two were sent and received.
C27_Witness ==
    /\ ppc = "returned"
    /\ Len(urls) = 3
    /\ Len(scraped) = 2
    /\ received = scraped
    /\ doneClosed

\* C28: a Scrape-Complete event is sent for a prefix only after ScrapeToS3
\* returned a result for it; a target whose ScrapeToS3 fails sends no event
\* and the producer goes on to the next target: the events sent are those of
\* the targets scraped successfully, in order, and the worker starts Ingest
\* only on such a prefix.
C28_EventsOnlyForScrapedPrefixes ==
    /\ [][ppc = "scrape" /\ ppc' = "loop" =>
            /\ idx' = idx + 1
            /\ scraped' = scraped
            /\ received' = received
            /\ chan' = chan
            /\ pending' = pending]_vars
    /\ [](/\ Len(scraped) - Len(received) - Len(chan)
                = (IF ppc = "send" THEN 1 ELSE 0)
          /\ \A k \in 1..Len(received) : received[k] = scraped[k]
          /\ ppc = "send" => pending.prefix = scraped[Len(scraped)]
          /\ \A k \in 1..Len(ingestLog) :
                \E j \in 1..Len(scraped) : ingestLog[k][2] = scraped[j]
          /\ ppc = "returned" =>
                /\ Len(received) = Len(scraped)
                /\ Len(scraped) <= Cardinality(attempted))

\* The run has returned after three targets: the second failed to scrape,
\* the first and the third were sent and ingested.
C28_Witness ==
    /\ ppc = "returned"
    /\ Len(urls) = 3
    /\ scraped = <<RunPrefix(1), RunPrefix(3)>>
    /\ received = scraped
    /\ Len(ingestLog) = 4

\* What a successful ScrapeToS3 leaves behind: when it returns a result, the
\* manifest of the returned prefix is in the store and counts the pages of
\* the result; when it returns an error no manifest was written.
ScrapeToS3ResultHasManifest ==
    s3Ret.returned =>
        IF s3Ret.err = "nil"
        THEN \E m \in store.manifests :
                /\ m.prefix = s3Ret.prefix
                /\ m.pageCount = s3Ret.pageCount
        ELSE store.manifests = {}

\* C29: a failed Ingest does not stop the worker: the step that ends an
\* Ingest call, with an error or a result, takes the worker back to its
\* receive with done still open; the error branch leaves the totals alone,
\* the totals equal the sum of DocsIndexed over the runs that returned a
\* result, and every event the producer has to send is in the end ingested.
C29_WorkerSurvivesIngestFailure ==
    /\ [](totalDocsIndexed = ingestSum)
    /\ [][cpc = "ingest" /\ cpc' # "ingest" =>
            /\ cpc' = "recv"
            /\ ~doneClosed'
            /\ ingestLog' = Append(ingestLog, <<"end", event.prefix>>)
            /\ totalDocsIndexed' - totalDocsIndexed \in 0..event.pageCount]_vars
    /\ [][WorkerIngestError =>
            /\ totalDocsIndexed' = totalDocsIndexed
            /\ received' = received
            /\ chan' = chan]_vars
    /\ <>(/\ cpc = "done"
           /\ StartSeq = scraped
           /\ \A k \in DOMAIN scraped : IngestEnded(scraped[k]))

\* Two runs of two pages each were scraped; the Ingest of the first ended
\* without adding to the totals, and the second event was received and its
\* Ingest started.
C29_Witness ==
    /\ cpc = "ingest"
    /\ Len(ingestLog) = 3
    /\ Len(scraped) = 2
    /\ totalPages = 4
    /\ event.pageCount = 2
    /\ totalDocsIndexed = 0

\* The fields of an indexed document the two flows are compared on.
IndexedFields(doc) ==
    [id |-> doc.id, url |-> doc.url, title |-> doc.title,
     content |-> doc.content]

\* The document the other flow builds for the page and the call outcomes of
\* a logged loop turn: Ingest gives Detect an empty Content-Type and reads
\* the body back from the store, Run gives Detect the header as served.
OtherFlowDocument(entry) ==
    IF mode = "ingest"
    THEN BuildDocument(entry.url, ContentTypeOf(entry.url),
                       ContentTypeOf(entry.url), PageBody(entry.url), entry.o)
    ELSE BuildDocument(entry.url, "", "",
                       GetMarkdown(PageFile(entry.url)), entry.o)

\* C30: for the same page and the same call outcomes, the document a flow
\* submits to the index has the id, url, title and content of the document
\* the other flow builds.
C30_FlowsIndexTheSameDocument ==
    \A k \in DOMAIN docLog :
        (docLog[k].submitted /\ docLog[k].url \in PageURLs) =>
            IndexedFields(docLog[k].doc)
                = IndexedFields(OtherFlowDocument(docLog[k]))

====
